---------------------------- MODULE Spec2Model ----------------------------
(***************************************************************************)
(* A model of llmdata: the paragraph deduplication stage and its Bloom     *)
(* coordinator (processors/format/deduplication.py), the pipeline executor *)
(* (core/pipeline.py, core/config.py, core/registry.py) and the dotted     *)
(* path helpers (core/utils.py).                                           *)
(*                                                                         *)
(* Texts are sequences of characters.  The hash library (mmh3) and the     *)
(* seeded random vectors (numpy) are outside the repository: they are      *)
(* replaced by small fixed arithmetic hashes of the same shape, and the    *)
(* 32-bit widths are scaled down to 4 bits so that collisions happen.      *)
(***************************************************************************)
EXTENDS Integers, Sequences, FiniteSets, TLC

(***************************************************************************)
(* Bounds of the model.                                                    *)
(***************************************************************************)
MaxTextLen == 2        \* longest document text, in characters
NumDocs == 2           \* documents of the corpus
MaxDataLen == 3        \* longest string given to a filter directly
bloom_size == 5        \* bits per band of the Bloom matrix (scaled down)
bloom_hashes == 2      \* hash functions per band value (scaled down)
lsh_ngram_size == 1    \* words per shingle (scaled down)

(***************************************************************************)
(* Parameters of the signature, scaled down to 4-bit hashes.               *)
(***************************************************************************)
lsh_permutations == 4  \* MinHash permutations
num_bands == 2         \* what _set_bands() returns for 4 permutations, 0.8
band_size == 2
max_val == 15          \* (1 << w) - 1, with w = 4 for 32
prime == 17            \* the first prime above 1 << w, as 4294967311 is
perm_a == <<3, 5, 7, 11>>   \* the seeded vector a, values in [1, max_val)
perm_b == <<1, 2, 4, 8>>    \* the seeded vector b, values in [0, max_val)

NL == "\n"
SP == " "
Alphabet == {"a", NL}
split_char == NL
Whitespace == {NL, SP}

Min(x, y) == IF x <= y THEN x ELSE y

IsPrefix(s1, s2) == Len(s1) <= Len(s2) /\ SubSeq(s2, 1, Len(s1)) = s1

Texts == UNION {[1..n -> Alphabet] : n \in 0..MaxTextLen}

(***************************************************************************)
(* Stand-ins for mmh3.hash: over a string, over the bytes of one integer,  *)
(* and over the bytes of one integer with a seed.                          *)
(***************************************************************************)
CharCode(c) == CASE c = "a" -> 1 [] c = SP -> 2 [] c = NL -> 3 [] OTHER -> 4

RECURSIVE mmh3_str(_)
mmh3_str(s) ==
    IF s = <<>> THEN 0
    ELSE (mmh3_str(SubSeq(s, 1, Len(s) - 1)) * 5 + CharCode(s[Len(s)])) % (max_val + 1)

mmh3_int(v) == (v * 7 + 3) % (max_val + 1)

mmh3_seeded(v, i) == (v * (2 * i + 3) + i + 1) % (max_val + 1)

(***************************************************************************)
(* str.split(sep), sep.join(list) and str.split() of Python.               *)
(***************************************************************************)
RECURSIVE split(_, _)
split(s, sep) ==
    IF \A i \in 1..Len(s) : s[i] # sep THEN <<s>>
    ELSE LET i == CHOOSE j \in 1..Len(s) :
                      s[j] = sep /\ \A k \in 1..(j - 1) : s[k] # sep
         IN  <<SubSeq(s, 1, i - 1)>> \o split(SubSeq(s, i + 1, Len(s)), sep)

RECURSIVE join(_, _)
join(parts, sep) ==
    IF parts = <<>> THEN <<>>
    ELSE IF Len(parts) = 1 THEN parts[1]
    ELSE parts[1] \o <<sep>> \o join(Tail(parts), sep)

RECURSIVE words(_)
words(s) ==
    IF s = <<>> THEN <<>>
    ELSE IF s[1] \in Whitespace THEN words(Tail(s))
    ELSE LET n == IF \A i \in 1..Len(s) : s[i] \notin Whitespace THEN Len(s)
                  ELSE (CHOOSE j \in 1..Len(s) :
                            s[j] \in Whitespace
                            /\ \A k \in 1..(j - 1) : s[k] \notin Whitespace) - 1
         IN  <<SubSeq(s, 1, n)>> \o words(SubSeq(s, n + 1, Len(s)))

(***************************************************************************)
(* Signature: shingles, MinHash signature, band signature.                 *)
(***************************************************************************)
get_ngrams(sequence) ==
    {SubSeq(sequence, i, i + lsh_ngram_size - 1) :
        i \in 1..(Len(sequence) - lsh_ngram_size + 1)}

get_shingles(text) ==
    LET ws == words(text)
    IN  IF Len(ws) < lsh_ngram_size THEN {join(ws, SP)}
        ELSE {join(ng, SP) : ng \in get_ngrams(ws)}

\* The minimum over the shingles of permutation i, with the vectors pa, pb.
RECURSIVE MinOver(_, _, _, _, _)
MinOver(pa, pb, shingles, i, acc) ==
    IF shingles = {} THEN acc
    ELSE LET s == CHOOSE x \in shingles : TRUE
             h == ((pa[i] * mmh3_str(s) + pb[i]) % prime) % max_val
         IN  MinOver(pa, pb, shingles \ {s}, i, Min(acc, h))

\* _get_minhash_signature of an instance whose vectors are pa and pb.
minhash_with(pa, pb, shingles) ==
    IF shingles = {} THEN [i \in 1..lsh_permutations |-> 0]
    ELSE [i \in 1..lsh_permutations |-> MinOver(pa, pb, shingles, i, max_val)]

get_minhash_signature(shingles) == minhash_with(perm_a, perm_b, shingles)

\* np.array_split: the first P % B bands hold P \div B + 1 values, the others P \div B.
array_split(sig, n) ==
    LET P == Len(sig)
        q == P \div n
        r == P % n
        first(k) == IF k <= r THEN (k - 1) * (q + 1) + 1
                    ELSE r * (q + 1) + (k - 1 - r) * q + 1
        size(k) == IF k <= r THEN q + 1 ELSE q
    IN  [k \in 1..n |-> SubSeq(sig, first(k), first(k) + size(k) - 1)]

RECURSIVE SumHashes(_)
SumHashes(band) ==
    IF band = <<>> THEN 0 ELSE mmh3_int(band[1]) + SumHashes(Tail(band))

get_band_signature(minhash_signature) ==
    LET bands == array_split(minhash_signature, num_bands)
    IN  [k \in 1..num_bands |-> SumHashes(bands[k]) % max_val]

Signature(text) == get_band_signature(get_minhash_signature(get_shingles(text)))

(***************************************************************************)
(* BandedBloomFilter: the bit matrix, put and get.                         *)
(***************************************************************************)
EmptyFilter == [k \in 1..num_bands |-> [i \in 0..(bloom_size - 1) |-> FALSE]]

hashes(item) == {mmh3_seeded(item, i) % bloom_size : i \in 0..(bloom_hashes - 1)}

\* A put that sets the position of the first hash function only.
put_first_hash(filter, data) ==
    LET band_values == Signature(data)
    IN  [k \in 1..num_bands |->
            [i \in 0..(bloom_size - 1) |->
                IF i = mmh3_seeded(band_values[k], 0) % bloom_size THEN TRUE
                ELSE filter[k][i]]]

\* A put that rebuilds the band rows from the new signature alone.
put_overwrite(filter, data) ==
    LET band_values == Signature(data)
    IN  [k \in 1..num_bands |->
            [i \in 0..(bloom_size - 1) |-> i \in hashes(band_values[k])]]

put(filter, data) ==
    LET band_values == Signature(data)
    IN  [k \in 1..num_bands |->
            [i \in 0..(bloom_size - 1) |->
                IF i \in hashes(band_values[k]) THEN TRUE ELSE filter[k][i]]]

get(filter, data) ==
    LET band_values == Signature(data)
    IN  \E k \in 1..num_bands : \A i \in hashes(band_values[k]) : filter[k][i]

(***************************************************************************)
(* State.                                                                  *)
(*   actor, state   the named actor "bloom_actor" and its bit matrix       *)
(*   run            0 before a stage exists, then the number of the run    *)
(*   concurrency    cap on the rows in flight (RayConfig.concurrency)      *)
(*   input, out     the rows the current run reads and the rows it emits   *)
(*   task           per row: the position of __call__ and its locals       *)
(*   first          the rows and labels of run 1, kept once run 2 starts   *)
(*   last           the latest direct call on a BandedBloomFilter          *)
(***************************************************************************)
VARIABLES actor, state, run, concurrency, input, out, task, first, last

dedupVars == <<actor, state, run, concurrency, input, out, task, first, last>>

(***************************************************************************)
(* State of one DataPipeline.                                              *)
(*   config    the PipelineConfig handed to the constructor                *)
(*   pc        position: validation of the config, then the phases of run  *)
(*   source    the rows behind the reader's path                           *)
(*   dataset   self.dataset: unset, or a lazy plan of constructed stages   *)
(*   exec      the execution of the plan a consumer has triggered          *)
(*   reads, applied   per row: times read, times each stage was called     *)
(*   written   the rows the writer received                                *)
(*   ret       what run returned; error: the exception that ended it       *)
(*   phases    the phase methods called so far, in order                   *)
(***************************************************************************)
VARIABLES config, pc, source, dataset, exec, reads, applied, written, ret,
          phases, error

pipeVars == <<config, pc, source, dataset, exec, reads, applied, written, ret,
              phases, error>>

(***************************************************************************)
(* State of one row under set_field / get_field calls.                     *)
(*   row       the nested record, as a map from key paths to nodes         *)
(*   calls     set_field calls made so far                                 *)
(*   raised    what the latest set_field call raised                       *)
(*   tracked   one successful set_field(row, path, value), remembered, and *)
(*             whether a later call touched a prefix or extension of path  *)
(***************************************************************************)
VARIABLES row, calls, raised, tracked, call

pathVars == <<row, calls, raised, tracked, call>>

(***************************************************************************)
(* A Registry (core/registry.py).                                          *)
(*   classes   _classes: category -> identifier -> class, in insertion     *)
(*             order, as a sequence of [key, value] items                  *)
(*   schemas   _schemas: the (category, identifier, class) a schema was    *)
(*             generated for                                               *)
(*   lookup    the last call made on the registry and what it returned     *)
(*   registered  the registrations made so far: key -> class of the last   *)
(*             add under the key                                           *)
(***************************************************************************)
VARIABLES classes, schemas, lookup, registered

registryVars == <<classes, schemas, lookup, registered>>

Returned(value) == [raised |-> "none", value |-> value]
Raised(e) == [raised |-> e, value |-> "None"]

NoLookup == [op |-> "none", category |-> "", identifier |-> "", cls |-> "",
             result |-> Returned("None")]

\* Registry(): no category, no schema.
RegistryIdle ==
    /\ classes = <<>>
    /\ schemas = {}
    /\ lookup = NoLookup
    /\ registered = <<>>

(***************************************************************************)
(* BandedBloomFilter._set_bands (processors/format/deduplication.py).      *)
(*   permutations  lsh_permutations                                        *)
(*   threshold     lsh_threshold, in units of 1 / Scale                    *)
(*   geometry      what _set_bands returned, once it has                   *)
(***************************************************************************)
VARIABLES permutations, threshold, geometry

bandVars == <<permutations, threshold, geometry>>

NoGeometry == [set |-> FALSE, b |-> 0, r |-> 0]

BandsIdle ==
    /\ permutations = 1
    /\ threshold = 0
    /\ geometry = NoGeometry

(***************************************************************************)
(* The Counter aggregation under Ray's reduce (aggregations/counter.py).   *)
(*   blocks        the partitions of the dataset: the `on` column of each, *)
(*                 one value per row                                       *)
(*   top_k         the configured CounterAggregation.top_k                 *)
(*   aggregated    the blocks aggregate_block has been called on           *)
(*   accumulators  the partial results not yet combined                    *)
(*   final         what finalize returned, once it has                     *)
(***************************************************************************)
VARIABLES blocks, top_k, aggregated, accumulators, final

counterVars == <<blocks, top_k, aggregated, accumulators, final>>

NoTopK == [set |-> FALSE, k |-> 0]
NoFinal == [set |-> FALSE, raised |-> "none", items |-> <<>>]

CounterIdle ==
    /\ blocks = <<>>
    /\ top_k = NoTopK
    /\ aggregated = {}
    /\ accumulators = <<>>
    /\ final = NoFinal

(***************************************************************************)
(* Signature instances of one process (deduplication.py).                  *)
(*   rng         the state of numpy's global random generator              *)
(*   instances   the Signature objects built so far: seed, a, b            *)
(*   firstsig    the first __call__ made and what it returned              *)
(*   lastsig     the last __call__ made and what it returned               *)
(***************************************************************************)
VARIABLES rng, instances, firstsig, lastsig

signatureVars == <<rng, instances, firstsig, lastsig>>

NoSig == [set |-> FALSE, instance |-> 0, text |-> <<>>, value |-> <<>>]

SignatureIdle ==
    /\ rng = 0
    /\ instances = <<>>
    /\ firstsig = NoSig
    /\ lastsig = NoSig

(***************************************************************************)
(* The lifetime of the named actor (deduplication.py).                     *)
(*   stage   the parameters of the deduplication stage constructed last    *)
(*   made    the construction that created the live actor "bloom_actor",   *)
(*           and the parameters it was created with                        *)
(***************************************************************************)
VARIABLES stage, made

lifeVars == <<stage, made>>

NoActor == [run |-> 0, params |-> "none"]

LifeIdle ==
    /\ stage = "none"
    /\ made = NoActor

(***************************************************************************)
(* GopherRepetitionTagger: the row handed to __call__ (`sample`, with the  *)
(* characters of its text in `content`), the n-gram sizes configured and   *)
(* what the call did.                                                      *)
(***************************************************************************)
VARIABLES sample, content, grams, repetition

gopherVars == <<sample, content, grams, repetition>>

NoGrams == [top_n_grams |-> <<>>, dup_n_grams |-> <<>>]
NoRepetition == [called |-> FALSE, raised |-> "none", text |-> <<>>,
                 fields |-> <<>>, top |-> <<>>, dup |-> <<>>]

\* No row handed to the tagger.
GopherIdle ==
    /\ sample = (<<>> :> "dict")
    /\ content = <<>>
    /\ grams = NoGrams
    /\ repetition = NoRepetition

(***************************************************************************)
(* A FilterFn (LanguageFilter, OCRQualityFilter, GopherRepetitionFilter):  *)
(* the filter configured (`predicate`), the value of the row at its `on`   *)
(* field (`datum`) and what the call returned (`verdict`).                 *)
(***************************************************************************)
VARIABLES predicate, datum, verdict

filterVars == <<predicate, datum, verdict>>

NoFilter == [kind |-> "none"]
NoDatum == [kind |-> "missing"]
NoVerdict == [called |-> FALSE, value |-> FALSE]

FilterIdle ==
    /\ predicate = NoFilter
    /\ datum = NoDatum
    /\ verdict = NoVerdict

(***************************************************************************)
(* BaseIngestor: the columns it is configured with (`ingestor`), the row   *)
(* it is called on (`foreign`) and the row it returned (`ingested`).       *)
(***************************************************************************)
VARIABLES ingestor, foreign, ingested

ingestVars == <<ingestor, foreign, ingested>>

NoIngestor == [other |-> <<>>, subset_name_or_column |-> <<>>,
               license_name_or_column |-> <<>>]
NoIngested == [called |-> FALSE, row |-> <<>>, raised |-> "none"]

IngestIdle ==
    /\ ingestor = NoIngestor
    /\ foreign = <<>>
    /\ ingested = NoIngested

extraVars == <<filterVars, ingestVars>>
ExtraIdle == FilterIdle /\ IngestIdle

modelVars == <<registryVars, bandVars, counterVars, signatureVars, gopherVars,
              extraVars>>
restVars == <<modelVars, lifeVars>>
RestIdle ==
    /\ RegistryIdle /\ BandsIdle /\ CounterIdle /\ SignatureIdle /\ LifeIdle
    /\ GopherIdle /\ ExtraIdle

vars == <<dedupVars, pipeVars, pathVars, restVars>>
nonDedupVars == <<pipeVars, pathVars, restVars>>
nonPipeVars == <<dedupVars, pathVars, restVars>>
nonPathVars == <<dedupVars, pipeVars, restVars>>

Docs == 1..NumDocs

\* A row has an id and, unless the column is missing, a text.
Rows(d) == {[id |-> d]} \cup {[id |-> d, text |-> t] : t \in Texts}

\* get_field(row, "text") and the test `not text`.
HasText(r) == "text" \in DOMAIN r
\* A test for the missing column only: `if text is None`.
NotTextMissing(r) == ~HasText(r)

NotText(r) == ~HasText(r) \/ r.text = <<>>

\* set_field(row, "text", value)
SetText(r, value) ==
    [f \in DOMAIN r \cup {"text"} |-> IF f = "text" THEN value ELSE r[f]]

PyBool(x) == IF x THEN "True" ELSE "False"

\* A comparison that takes every answer but True as "no match".
MatchIsNotTrue(match) == match # "True"

\* `match is None`, with match what BandedBloomFilter.get returned.
MatchIsNone(match) == match = "None"

IdleTask == [pc |-> "wait", paragraphs |-> <<>>, match |-> "unset",
             matches |-> <<>>, unique |-> <<>>]

NoCall == [op |-> "none", data |-> <<>>, result |-> "None"]

InFlight == {d \in Docs : task[d].pc \in {"get", "branch", "assemble"}}
AllDone == \A d \in Docs : task[d].pc = "done"

\* Keep the paragraphs labelled True, in order.
RECURSIVE Retained(_, _)
Retained(paragraphs, unique) ==
    IF paragraphs = <<>> \/ unique = <<>> THEN <<>>
    ELSE (IF unique[1] THEN <<paragraphs[1]>> ELSE <<>>)
         \o Retained(Tail(paragraphs), Tail(unique))

(***************************************************************************)
(* Nested records and dotted paths (core/utils.py).  A nested record is a  *)
(* map from key paths to nodes: the root <<>> and every inner record is    *)
(* the node "dict", every other node is a scalar.  A value is such a map   *)
(* too: a scalar is the map of <<>> alone.  A key is a string, that is a   *)
(* sequence of characters.                                                 *)
(***************************************************************************)
MaxCalls == 3          \* set_field calls on one row

DOT == "."

\* The dotted paths tried: "", "a", "a.b", "a.a", "." and "a.b.a".
Fields ==
    { <<>>, <<"a">>, <<"a", DOT, "b">>, <<"a", DOT, "a">>, <<DOT>>,
      <<"a", DOT, "b", DOT, "a">> }

Scalar(x) == (<<>> :> x)
NoneValue == Scalar("None")
EmptyDict == Scalar("dict")
Values == {Scalar("1"), NoneValue, EmptyDict @@ (<< <<"a">> >> :> "1")}

\* The value found at `path` of the record.
Subtree(record, path) ==
    [q \in {SubSeq(x, Len(path) + 1, Len(x)) :
               x \in {y \in DOMAIN record : IsPrefix(path, y)}}
        |-> record[path \o q]]

\* current[key] = value, with current the record at the parent of `path`.
assign(record, path, value) ==
    LET keep == {q \in DOMAIN record : ~IsPrefix(path, q)}
        new == {path \o q : q \in DOMAIN value}
    IN  [q \in keep \cup new |->
            IF q \in new THEN value[SubSeq(q, Len(path) + 1, Len(q))]
            ELSE record[q]]

\* A step that replaces a value that is not a record instead of failing.
descend_overwrite(record, path) ==
    IF path \notin DOMAIN record \/ record[path] # "dict"
    THEN [row |-> assign(record, path, EmptyDict), err |-> "none"]
    ELSE [row |-> record, err |-> "none"]

\* A step that stores a new record under the key whether it exists or not.
descend_reset(record, path) ==
    IF path \in DOMAIN record /\ record[path] # "dict"
    THEN [row |-> record, err |-> "TypeError"]
    ELSE [row |-> assign(record, path, EmptyDict), err |-> "none"]

\* A step that has already emptied the value it then fails on.
descend_dirty(record, path) ==
    IF path \notin DOMAIN record
    THEN [row |-> record @@ (path :> "dict"), err |-> "none"]
    ELSE IF record[path] # "dict"
         THEN [row |-> assign(record, path, EmptyDict), err |-> "TypeError"]
         ELSE [row |-> record, err |-> "none"]

\* set_field, one step of the loop over keys[:-1]: create the missing
\* record, or fail on an existing value that is not a record.
descend(record, path) ==
    IF path \notin DOMAIN record
    THEN [row |-> record @@ (path :> "dict"), err |-> "none"]
    ELSE IF record[path] # "dict"
         THEN [row |-> record, err |-> "TypeError"]
         ELSE [row |-> record, err |-> "none"]

RECURSIVE set_walk(_, _, _)
set_walk(record, keys, i) ==
    IF i > Len(keys) - 1 THEN [row |-> record, err |-> "none"]
    ELSE LET step == descend(record, SubSeq(keys, 1, i))
         IN  IF step.err # "none" THEN step
             ELSE set_walk(step.row, keys, i + 1)

\* set_field(row, field, value): the row afterwards and what was raised.
set_field(record, field, value) ==
    IF field = <<>> THEN [row |-> record, err |-> "ValueError"]
    ELSE LET keys == split(field, DOT)
             walk == set_walk(record, keys, 1)
         IN  IF walk.err # "none" THEN walk
             ELSE [row |-> assign(walk.row, keys, value), err |-> "none"]

RECURSIVE get_walk(_, _, _)
get_walk(record, keys, i) ==
    LET current == SubSeq(keys, 1, i - 1)
    IN  IF i > Len(keys) THEN Subtree(record, current)
        ELSE IF record[current] # "dict" \/ SubSeq(keys, 1, i) \notin DOMAIN record
             THEN NoneValue
             ELSE get_walk(record, keys, i + 1)

\* get_field without its test of the empty path.
get_field_unguarded(record, field) == get_walk(record, split(field, DOT), 1)

\* get_field(row, field)
get_field(record, field) ==
    IF field = <<>> THEN NoneValue
    ELSE get_walk(record, split(field, DOT), 1)

NotTracked == [set |-> FALSE, valid |-> FALSE, field |-> <<>>,
               value |-> NoneValue, later |-> 0]

NoPathCall == [op |-> "none", field |-> <<>>, value |-> NoneValue,
               result |-> NoneValue]

\* No row under test.
PathIdle ==
    /\ row = EmptyDict
    /\ calls = 0
    /\ raised = "none"
    /\ tracked = NotTracked
    /\ call = NoPathCall

\* No pipeline: the stage is driven directly.
PipeIdle ==
    /\ config = [input |-> "jsonl", processors |-> <<>>, output |-> "None",
                 aggregations |-> [set |-> FALSE, list |-> <<>>]]
    /\ pc = "none"
    /\ source = <<>>
    /\ dataset = [set |-> FALSE, plan |-> <<>>]
    /\ exec = [consumer |-> "none", pending |-> <<>>, result |-> <<>>, aggs |-> <<>>]
    /\ reads = <<>>
    /\ applied = <<>>
    /\ written = [set |-> FALSE, rows |-> <<>>]
    /\ ret = [set |-> FALSE, value |-> <<>>]
    /\ phases = <<>>
    /\ error = "none"

Init ==
    /\ actor = "none"
    /\ state = EmptyFilter
    /\ run = 0
    /\ concurrency \in Docs
    /\ input \in {r \in [Docs -> UNION {Rows(d) : d \in Docs}] :
                      \A d \in Docs : r[d].id = d}
    /\ out = input
    /\ task = [d \in Docs |-> IdleTask]
    /\ first = <<>>
    /\ last = NoCall
    /\ PipeIdle
    /\ PathIdle
    /\ RestIdle

\* The parameter sets a stage is constructed with (bloom_size, bloom_hashes,
\* lsh_permutations, lsh_threshold, lsh_ngram_size): the model's and another.
StageParams == {"default", "other"}

\* _get_or_create_actor(name="bloom_actor", get_if_exists=True): the live
\* actor of that name, or a new one with every bit clear.
get_or_create_actor(alive, filter) == IF alive THEN filter ELSE EmptyFilter

\* DeduplicationFormatter.__init__, for the first run and for a second run
\* over the rows the first run emitted, in the same order.
ConstructStage ==
    /\ \/ run = 0
       \/ run = 1 /\ AllDone
    /\ run' = run + 1
    /\ state' = get_or_create_actor(actor = "alive", state)
    /\ actor' = "alive"
    /\ \E params \in StageParams :
           /\ run = 0 => params = "default"
           /\ stage' = params
           /\ made' = IF actor = "alive" THEN made
                      ELSE [run |-> run + 1, params |-> params]
    /\ input' = IF run = 0 THEN input ELSE out
    /\ out' = IF run = 0 THEN input ELSE out
    /\ first' = IF run = 0 THEN first ELSE <<[rows |-> out, tasks |-> task]>>
    /\ task' = [d \in Docs |-> IdleTask]
    /\ UNCHANGED <<concurrency, last, pipeVars, pathVars, modelVars>>

\* The actor dies once no stage holds a handle to it.
ActorExit ==
    /\ actor = "alive"
    /\ run \in {1, 2}
    /\ AllDone
    /\ actor' = "none"
    /\ state' = EmptyFilter
    /\ made' = NoActor
    /\ UNCHANGED <<run, concurrency, input, out, task, first, last, stage,
                   pipeVars, pathVars, modelVars>>

\* __call__ up to the loop: rows are handed out in order, at most
\* `concurrency` at a time.
Start(d) ==
    /\ run \in {1, 2}
    /\ task[d].pc = "wait"
    /\ \A e \in Docs : e < d => task[e].pc # "wait"
    /\ Cardinality(InFlight) < concurrency
    /\ IF NotText(input[d])
       THEN /\ task' = [task EXCEPT ![d].pc = "done"]
            /\ out' = [out EXCEPT ![d] = input[d]]
       ELSE /\ task' = [task EXCEPT ![d].pc = "get",
                            ![d].paragraphs = split(input[d].text, split_char)]
            /\ UNCHANGED out
    /\ UNCHANGED <<actor, state, run, concurrency, input, first, last, nonDedupVars>>

\* match = ray.get(self._actor.get.remote(paragraph))
Get(d) ==
    /\ task[d].pc = "get"
    /\ LET k == Len(task[d].unique) + 1
       IN  task' = [task EXCEPT ![d].pc = "branch",
                       ![d].match = PyBool(get(state, task[d].paragraphs[k]))]
    /\ UNCHANGED <<actor, state, run, concurrency, input, out, first, last, nonDedupVars>>

\* The branch on `match is None`, with the put of the first arm.
Branch(d) ==
    /\ task[d].pc = "branch"
    /\ LET k == Len(task[d].unique) + 1
           new == MatchIsNone(task[d].match)
       IN  /\ state' = IF new THEN put(state, task[d].paragraphs[k]) ELSE state
           /\ task' = [task EXCEPT
                          ![d].unique = Append(@, new),
                          ![d].matches = Append(@, task[d].match),
                          ![d].pc = IF k = Len(task[d].paragraphs)
                                    THEN "assemble" ELSE "get"]
    /\ UNCHANGED <<actor, run, concurrency, input, out, first, last, nonDedupVars>>

\* The reassembly after the loop.
Assemble(d) ==
    /\ task[d].pc = "assemble"
    /\ LET unique == task[d].unique
           any == \E k \in 1..Len(unique) : unique[k]
           kept == Retained(task[d].paragraphs, unique)
       IN  out' = [out EXCEPT ![d] =
                      IF ~any THEN SetText(input[d], <<>>)
                      ELSE SetText(input[d], join(kept, split_char))]
    /\ task' = [task EXCEPT ![d].pc = "done"]
    /\ UNCHANGED <<actor, state, run, concurrency, input, first, last, nonDedupVars>>

Next ==
    \/ ConstructStage
    \/ ActorExit
    \/ \E d \in Docs : Start(d)
    \/ \E d \in Docs : Get(d)
    \/ \E d \in Docs : Branch(d)
    \/ \E d \in Docs : Assemble(d)

Spec == Init /\ [][Next]_vars

(***************************************************************************)
(* Direct use of one BandedBloomFilter: any put and any get, in any order. *)
(***************************************************************************)
Data == UNION {[1..n -> Alphabet] : n \in 0..MaxDataLen}

BloomInit ==
    /\ actor = "alive"
    /\ state = EmptyFilter
    /\ run = 0
    /\ concurrency = 1
    /\ input = [d \in Docs |-> [id |-> d]]
    /\ out = input
    /\ task = [d \in Docs |-> IdleTask]
    /\ first = <<>>
    /\ last = NoCall
    /\ PipeIdle
    /\ PathIdle
    /\ RestIdle

BloomPut(data) ==
    /\ state' = put(state, data)
    /\ last' = [op |-> "put", data |-> data, result |-> "None"]
    /\ UNCHANGED <<actor, run, concurrency, input, out, task, first, nonDedupVars>>

BloomGet(data) ==
    /\ last' = [op |-> "get", data |-> data, result |-> PyBool(get(state, data))]
    /\ UNCHANGED <<actor, state, run, concurrency, input, out, task, first, nonDedupVars>>

BloomNext ==
    \/ \E data \in Data : BloomPut(data)
    \/ \E data \in Data : BloomGet(data)

SpecBloom == BloomInit /\ [][BloomNext]_vars

(***************************************************************************)
(* Claims about the deduplication stage.                                   *)
(***************************************************************************)
Labelled == {<<d, k>> \in Docs \X (1..(MaxTextLen + 1)) : k <= Len(task[d].unique)}
Kept == {x \in Labelled : task[x[1]].unique[x[2]]}
Paragraph(x) == task[x[1]].paragraphs[x[2]]

\* Two paragraphs are the same for the LSH when some band of their band
\* signatures agrees (identical paragraphs agree in every band).
Colliding(p, q) == \E k \in 1..num_bands : Signature(p)[k] = Signature(q)[k]

AllParagraphs ==
    UNION {{split(input[d].text, split_char)[k] :
               k \in 1..Len(split(input[d].text, split_char))} :
           d \in {e \in Docs : ~NotText(input[e])}}

\* C1: first writer wins. When the first run has processed a corpus of at
\* least two non-empty documents whose paragraphs all collide with each
\* other, exactly one paragraph was labelled new and retained, whatever the
\* interleaving of the coordinator calls.
C1_FirstWriterWins ==
    (/\ run = 1
     /\ AllDone
     /\ Cardinality({d \in Docs : ~NotText(input[d])}) >= 2
     /\ \A p, q \in AllParagraphs : Colliding(p, q))
    => Cardinality(Kept) = 1

\* C2: sequential retention rule. With one row in flight at a time and a
\* filter that started empty, a paragraph is labelled retained iff the
\* Bloom check on it returned false when it was processed.
C2_RetainedIffCheckFalse ==
    (run = 1 /\ concurrency = 1)
    => \A x \in Labelled :
           task[x[1]].unique[x[2]] <=> (task[x[1]].matches[x[2]] = "False")

C5_BitsOnlyGrow ==
    [][/\ \A k \in 1..num_bands : \A i \in 0..(bloom_size - 1) :
              state[k][i] => state'[k][i]
       /\ last'.op = "get" => state' = state]_vars

\* A put has set bits of a matrix that already held other bits, and a get
\* has then been answered from it.
C5_Witness ==
    /\ last.op = "get"
    /\ last.result = "True"
    /\ \E k \in 1..num_bands :
           Cardinality({i \in 0..(bloom_size - 1) : state[k][i]}) > bloom_hashes

(***************************************************************************)
(* The component registry, as the decorators of the package fill it.       *)
(***************************************************************************)
MaxStages == 2         \* longest list of processors
MaxRows == 2           \* rows behind the reader's path

Registered ==
    { <<"filter", "value", "Filter">>,
      <<"format", "deduplication", "Map">>,
      <<"aggregation", "counter", "Reduce">>,
      <<"reader", "jsonl", "Reader">>,
      <<"writer", "jsonl", "Writer">> }

components_has(category, identifier) ==
    \E e \in Registered : e[1] = category /\ e[2] = identifier

\* The class registered under the key, or "ValueError".
components_get(category, identifier) ==
    IF components_has(category, identifier)
    THEN (CHOOSE e \in Registered : e[1] = category /\ e[2] = identifier)[3]
    ELSE "ValueError"

\* MapFn, FilterFn and ReduceFn are pydantic models; Reader and Writer are not.
IsBaseModel(cls) == cls \in {"Map", "Filter", "Reduce"}

\* TRUE iff validate_config returns without raising: params are "ok" when
\* they satisfy the schema of the class and "bad" when they do not.
validate_config(category, identifier, params) ==
    LET cls == components_get(category, identifier)
    IN  /\ cls # "ValueError"
        /\ IsBaseModel(cls) => params = "ok"

\* cls(**params): a pydantic model validates its fields; Writer takes any
\* keywords; Reader lacks its positional argument `config`.
Constructs(cls, params) ==
    CASE IsBaseModel(cls) -> params = "ok"
      [] cls = "Writer" -> TRUE
      [] OTHER -> FALSE

(***************************************************************************)
(* Pipeline configurations.                                                *)
(***************************************************************************)
Stage(category, type, params, enabled) ==
    [category |-> category, type |-> type, params |-> params, enabled |-> enabled]

ProcessorConfigs ==
    { Stage("filter", "value", "ok", TRUE),
      Stage("format", "deduplication", "ok", TRUE),
      Stage("filter", "value", "ok", FALSE),
      Stage("format", "deduplication", "bad", TRUE),
      Stage("filter", "nope", "ok", TRUE),
      Stage("nocat", "value", "ok", TRUE),
      Stage("aggregation", "counter", "ok", TRUE),
      Stage("writer", "jsonl", "ok", TRUE),
      Stage("writer", "jsonl", "ok", FALSE) }

AggregationConfigs ==
    { Stage("aggregation", "counter", "ok", TRUE),
      Stage("aggregation", "counter", "ok", FALSE),
      Stage("aggregation", "counter", "bad", TRUE),
      Stage("aggregation", "nope", "ok", TRUE),
      Stage("filter", "value", "ok", TRUE) }

Configs ==
    [input : {"jsonl", "nope"},
     processors : UNION {[1..n -> ProcessorConfigs] : n \in 0..MaxStages},
     output : {"None", "jsonl", "nope"},
     aggregations : {[set |-> FALSE, list |-> <<>>]}
                    \cup {[set |-> TRUE, list |-> l] :
                             l \in {<<>>} \cup {<<c>> : c \in AggregationConfigs}}]

\* PipelineConfig.validate_pipeline: TRUE iff it returns without raising.
validate_pipeline(cfg) ==
    /\ \A i \in 1..Len(cfg.processors) :
           LET processor == cfg.processors[i]
           IN  /\ components_has(processor.category, processor.type)
               /\ validate_config(processor.category, processor.type, processor.params)
    /\ cfg.aggregations.set =>
           \A i \in 1..Len(cfg.aggregations.list) :
               LET aggregation == cfg.aggregations.list[i]
               IN  /\ components_has(aggregation.category, aggregation.type)
                   /\ validate_config(aggregation.category, aggregation.type,
                                      aggregation.params)

(***************************************************************************)
(* Rows, by how the stages act on them: "good" passes every stage, every   *)
(* Filter returns false for "dropped", every stage raises on "poison".     *)
(***************************************************************************)
RowKinds == {"good", "dropped", "poison"}
Sources == UNION {[1..n -> RowKinds] : n \in 0..MaxRows}

\* The stages of `plan` the row reaches, as the number of calls per stage.
RECURSIVE Calls(_, _)
Calls(kind, plan) ==
    IF plan = <<>> THEN <<>>
    ELSE IF kind = "poison" \/ (kind = "dropped" /\ plan[1] = "Filter")
         THEN <<1>> \o [i \in 1..(Len(plan) - 1) |-> 0]
         ELSE <<1>> \o Calls(kind, Tail(plan))

Raises(kind, plan) == kind = "poison" /\ plan # <<>>
Dropped(kind, plan) ==
    kind = "dropped" /\ \E i \in 1..Len(plan) : plan[i] = "Filter"

\* A loop that constructs and applies the processors switched off as well.
RECURSIVE process_loop_all(_, _, _)
process_loop_all(processors, i, plan) ==
    IF i > Len(processors) THEN [plan |-> plan, error |-> "none"]
    ELSE LET c == processors[i]
             cls == components_get(c.category, c.type)
         IN  IF cls = "ValueError" THEN [plan |-> plan, error |-> "lookup"]
             ELSE IF ~Constructs(cls, c.params)
                  THEN [plan |-> plan, error |-> "construct"]
             ELSE IF cls \in {"Filter", "Map"}
                  THEN process_loop_all(processors, i + 1, Append(plan, cls))
             ELSE [plan |-> plan, error |-> "classify"]

\* DataPipeline.process: the loop over the processors, from stage i on.
\* The result is the plan built and the error that ended the loop, if any.
RECURSIVE process_loop(_, _, _)
process_loop(processors, i, plan) ==
    IF i > Len(processors) THEN [plan |-> plan, error |-> "none"]
    ELSE LET c == processors[i]
             cls == components_get(c.category, c.type)
         IN  IF ~c.enabled THEN process_loop(processors, i + 1, plan)
             ELSE IF cls = "ValueError" THEN [plan |-> plan, error |-> "lookup"]
             ELSE IF ~Constructs(cls, c.params)
                  THEN [plan |-> plan, error |-> "construct"]
             ELSE IF cls = "Filter"
                  THEN process_loop(processors, i + 1, Append(plan, "Filter"))
             ELSE IF cls = "Map"
                  THEN process_loop(processors, i + 1, Append(plan, "Map"))
             ELSE [plan |-> plan, error |-> "classify"]

\* DataPipeline.aggregate: the loop that builds the aggregations.
RECURSIVE aggregate_loop(_, _, _)
aggregate_loop(aggregations, i, aggs) ==
    IF i > Len(aggregations) THEN [aggs |-> aggs, error |-> "none"]
    ELSE LET c == aggregations[i]
             cls == components_get("aggregation", c.type)
         IN  IF ~c.enabled THEN aggregate_loop(aggregations, i + 1, aggs)
             ELSE IF cls = "ValueError" THEN [aggs |-> aggs, error |-> "lookup"]
             ELSE IF ~Constructs(cls, c.params)
                  THEN [aggs |-> aggs, error |-> "construct"]
             ELSE aggregate_loop(aggregations, i + 1, Append(aggs, c.type))

\* A run that aggregates before it writes.
after_swapped(cfg, phase) ==
    CASE phase \in {"read", "process"} ->
             IF phase = "read" THEN "process"
             ELSE IF cfg.aggregations.set THEN "aggregate"
             ELSE IF cfg.output # "None" THEN "write" ELSE "done"
      [] phase = "aggregate" -> IF cfg.output # "None" THEN "write" ELSE "done"
      [] OTHER -> "done"

\* DataPipeline.run: the phase that follows `phase`.
after(cfg, phase) ==
    CASE phase = "read" -> "process"
      [] phase = "process" ->
             IF cfg.output # "None" THEN "write"
             ELSE IF cfg.aggregations.set THEN "aggregate" ELSE "done"
      [] phase = "write" -> IF cfg.aggregations.set THEN "aggregate" ELSE "done"
      [] OTHER -> "done"

NoExec == [consumer |-> "none", pending |-> <<>>, result |-> <<>>, aggs |-> <<>>]
None == [set |-> FALSE, value |-> <<>>]

\* run returns None when no phase is left, without an aggregation result.
Finish(next) == IF next = "done" THEN None ELSE ret

DedupIdle ==
    /\ actor = "none"
    /\ state = EmptyFilter
    /\ run = 0
    /\ concurrency = 1
    /\ input = [d \in Docs |-> [id |-> d]]
    /\ out = input
    /\ task = [d \in Docs |-> IdleTask]
    /\ first = <<>>
    /\ last = NoCall

PipelineInit ==
    /\ DedupIdle
    /\ PathIdle
    /\ RestIdle
    /\ config \in Configs
    /\ pc = "new"
    /\ source \in Sources
    /\ dataset = [set |-> FALSE, plan |-> <<>>]
    /\ exec = NoExec
    /\ reads = [i \in 1..Len(source) |-> 0]
    /\ applied = [i \in 1..Len(source) |-> <<>>]
    /\ written = [set |-> FALSE, rows |-> <<>>]
    /\ ret = None
    /\ phases = <<>>
    /\ error = "none"

\* PipelineConfig(...): the model validator runs when the config is built.
Validate ==
    /\ pc = "new"
    /\ IF validate_pipeline(config)
       THEN pc' = "read" /\ error' = error
       ELSE pc' = "rejected" /\ error' = "config"
    /\ UNCHANGED <<config, source, dataset, exec, reads, applied, written, ret,
                   phases, nonPipeVars>>

\* run: self.read()
Read ==
    /\ pc = "read"
    /\ phases' = Append(phases, "read")
    /\ IF components_get("reader", config.input) = "ValueError"
       THEN /\ pc' = "failed"
            /\ error' = "lookup_reader"
            /\ UNCHANGED <<dataset, applied>>
       ELSE /\ pc' = after(config, "read")
            /\ dataset' = [set |-> TRUE, plan |-> <<>>]
            /\ applied' = [i \in 1..Len(source) |-> <<>>]
            /\ error' = error
    /\ UNCHANGED <<config, source, exec, reads, written, ret, nonPipeVars>>

\* run: self.process()
Process ==
    /\ pc = "process"
    /\ phases' = Append(phases, "process")
    /\ LET r == process_loop(config.processors, 1, dataset.plan)
           next == after(config, "process")
       IN  /\ dataset' = [dataset EXCEPT !.plan = r.plan]
           /\ applied' = [i \in 1..Len(source) |-> [j \in 1..Len(r.plan) |-> 0]]
           /\ error' = r.error
           /\ pc' = IF r.error = "none" THEN next ELSE "failed"
           /\ ret' = IF r.error = "none" THEN Finish(next) ELSE ret
    /\ UNCHANGED <<config, source, exec, reads, written, nonPipeVars>>

\* run: self.write(), up to the call of the writer, which executes the plan.
BeginWrite ==
    /\ pc = "write"
    /\ phases' = Append(phases, "write")
    /\ IF components_get("writer", config.output) = "ValueError"
       THEN pc' = "failed" /\ error' = "lookup_writer" /\ exec' = exec
       ELSE /\ pc' = "writing"
            /\ exec' = [consumer |-> "write", pending |-> source, result |-> <<>>,
                        aggs |-> <<>>]
            /\ error' = error
    /\ UNCHANGED <<config, source, dataset, reads, applied, written, ret, nonPipeVars>>

\* One row of the executing plan: read it, pass it through the stages.
ExecRow ==
    /\ pc \in {"writing", "aggregating"}
    /\ exec.pending # <<>>
    /\ LET i == Len(source) - Len(exec.pending) + 1
           kind == exec.pending[1]
           n == Calls(kind, dataset.plan)
       IN  /\ reads' = [reads EXCEPT ![i] = @ + 1]
           /\ applied' = [applied EXCEPT ![i] =
                             [j \in 1..Len(dataset.plan) |-> @[j] + n[j]]]
           /\ IF Raises(kind, dataset.plan)
              THEN pc' = "failed" /\ error' = "udf" /\ exec' = exec
              ELSE /\ exec' = [exec EXCEPT
                                 !.pending = Tail(@),
                                 !.result = IF Dropped(kind, dataset.plan) THEN @
                                            ELSE Append(@, i)]
                   /\ UNCHANGED <<pc, error>>
    /\ UNCHANGED <<config, source, dataset, written, ret, phases, nonPipeVars>>

\* The writer returns once the plan has run over every row.
EndWrite ==
    /\ pc = "writing"
    /\ exec.pending = <<>>
    /\ written' = [set |-> TRUE, rows |-> exec.result]
    /\ pc' = after(config, "write")
    /\ ret' = Finish(after(config, "write"))
    /\ UNCHANGED <<config, source, dataset, exec, reads, applied, phases, error,
                   nonPipeVars>>

\* run: self.aggregate(), up to ds.aggregate(aggs), which executes the plan.
BeginAggregate ==
    /\ pc = "aggregate"
    /\ phases' = Append(phases, "aggregate")
    /\ LET r == aggregate_loop(config.aggregations.list, 1, <<>>)
       IN  IF r.error # "none"
           THEN pc' = "failed" /\ error' = r.error /\ exec' = exec
           ELSE /\ pc' = "aggregating"
                /\ exec' = [consumer |-> "aggregate", pending |-> source,
                            result |-> <<>>, aggs |-> r.aggs]
                /\ error' = error
    /\ UNCHANGED <<config, source, dataset, reads, applied, written, ret, nonPipeVars>>

\* ds.aggregate(aggs): one value per aggregation, here the number of rows
\* the plan let through.
ds_aggregate(aggs, rows) == [i \in 1..Len(aggs) |-> Len(rows)]

\* aggregate returns res, or None when res is empty; run returns that.
aggregate_return(res) == IF res = <<>> THEN None ELSE [set |-> TRUE, value |-> res]

EndAggregate ==
    /\ pc = "aggregating"
    /\ exec.pending = <<>>
    /\ ret' = aggregate_return(ds_aggregate(exec.aggs, exec.result))
    /\ pc' = "done"
    /\ UNCHANGED <<config, source, dataset, exec, reads, applied, written, phases,
                   error, nonPipeVars>>

PipelineNext ==
    \/ Validate
    \/ Read
    \/ Process
    \/ BeginWrite
    \/ ExecRow
    \/ EndWrite
    \/ BeginAggregate
    \/ EndAggregate

SpecPipeline == PipelineInit /\ [][PipelineNext]_vars

(***************************************************************************)
(* Claims about the pipeline executor.                                     *)
(***************************************************************************)
\* C6: with an output and aggregations configured, a finished run has read
\* every input row once and has called every stage at most once per row.
C6_EachRowProcessedOnce ==
    (pc = "done" /\ config.output # "None" /\ config.aggregations.set)
    => \A i \in 1..Len(source) :
           /\ reads[i] = 1
           /\ \A j \in 1..Len(applied[i]) : applied[i][j] <= 1

ExpectedPhases(cfg) ==
    <<"read", "process">>
    \o (IF cfg.output # "None" THEN <<"write">> ELSE <<>>)
    \o (IF cfg.aggregations.set THEN <<"aggregate">> ELSE <<>>)

\* C7: run calls read, process, write, aggregate in this order, write only
\* with an output and aggregate only with aggregations configured; a phase
\* starts when the one before has returned (the plan is built before a
\* consumer executes it, the writer got its rows before aggregate begins);
\* run returns what aggregate returned, and null without aggregations.
C7_PhaseOrder ==
    /\ IsPrefix(phases, ExpectedPhases(config))
    /\ pc \in {"writing", "aggregating"} =>
           /\ phases[Len(phases)] = exec.consumer
           /\ dataset.set
           /\ error = "none"
    /\ (pc \in {"aggregate", "aggregating"} /\ config.output # "None") => written.set
    /\ pc = "done" =>
           /\ phases = ExpectedPhases(config)
           /\ ret = IF config.aggregations.set
                    THEN aggregate_return(ds_aggregate(exec.aggs, exec.result))
                    ELSE None

\* A run of all four phases has returned an aggregation result.
C7_Witness ==
    /\ pc = "done"
    /\ phases = <<"read", "process", "write", "aggregate">>
    /\ ret.set
    /\ written.set

\* A valid stage: a registered key, parameters that satisfy the schema of
\* the component.
KnownAndValid(c) ==
    /\ components_has(c.category, c.type)
    /\ validate_config(c.category, c.type, c.params)

\* C8: configuration errors are static. A configuration with an unknown or
\* ill-parameterised processor or aggregation is rejected before any phase
\* runs, and after validation neither process nor aggregate raises a
\* lookup, construction or classification error.
C8_ConfigErrorsStatic ==
    /\ (/\ pc # "new"
        /\ \/ \E i \in 1..Len(config.processors) : ~KnownAndValid(config.processors[i])
           \/ \E i \in 1..Len(config.aggregations.list) :
                  ~KnownAndValid(config.aggregations.list[i]))
       => (pc = "rejected" /\ phases = <<>>)
    /\ error \notin {"lookup", "construct", "classify"}

\* C9: row-scoped failure. An exception a Map or Filter stage raises on one
\* row never ends the run.
C9_StageFailureIsRowScoped == ~(pc = "failed" /\ error = "udf")

(***************************************************************************)
(* One row under any sequence of set_field calls.                          *)
(***************************************************************************)
Related(p, q) ==
    \/ IsPrefix(split(p, DOT), split(q, DOT))
    \/ IsPrefix(split(q, DOT), split(p, DOT))

PathInit ==
    /\ DedupIdle
    /\ PipeIdle
    /\ PathIdle
    /\ RestIdle

\* set_field(row, field, value).  `track` remembers this call, if it
\* succeeds and none is remembered yet.
SetField(field, value, track) ==
    /\ calls < MaxCalls
    /\ LET r == set_field(row, field, value)
       IN  /\ row' = r.row
           /\ raised' = r.err
           /\ tracked' =
                 IF ~tracked.set
                 THEN IF track /\ r.err = "none"
                      THEN [set |-> TRUE, valid |-> TRUE, field |-> field,
                            value |-> value, later |-> 0]
                      ELSE tracked
                 ELSE [tracked EXCEPT
                          !.valid = @ /\ ~Related(field, tracked.field),
                          !.later = IF r.err = "none" THEN @ + 1 ELSE @]
    /\ calls' = calls + 1
    /\ call' = [op |-> "set", field |-> field, value |-> value, result |-> NoneValue]
    /\ UNCHANGED nonPathVars

\* get_field(row, field)
GetField(field) ==
    /\ call' = [op |-> "get", field |-> field, value |-> NoneValue,
                result |-> get_field(row, field)]
    /\ raised' = "none"
    /\ UNCHANGED <<row, calls, tracked, nonPathVars>>

PathNext ==
    \/ \E field \in Fields, value \in Values, track \in BOOLEAN :
           SetField(field, value, track)
    \/ \E field \in Fields : GetField(field)

SpecPath == PathInit /\ [][PathNext]_vars

\* C10: path round trip. After a set_field(r, p, v) that did not raise,
\* and after any further set_field calls on paths that are neither a prefix
\* nor an extension of p, get_field(r, p) returns v.
C10_RoundTrip ==
    (tracked.set /\ tracked.valid) => get_field(row, tracked.field) = tracked.value

\* A value was set at a path of two keys, and two later calls on unrelated
\* paths succeeded, the row holding other keys beside it.
C10_Witness ==
    /\ tracked.set
    /\ tracked.valid
    /\ Len(split(tracked.field, DOT)) >= 2
    /\ tracked.later >= 2
    /\ tracked.value # NoneValue
    /\ Cardinality(DOMAIN row) >= 4

\* Every segment of the path resolves through records of the row.
Resolves(record, keys) ==
    \A i \in 1..Len(keys) :
        /\ SubSeq(keys, 1, i) \in DOMAIN record
        /\ i < Len(keys) => record[SubSeq(keys, 1, i)] = "dict"

\* C11: get_field never raises and never modifies the row; it returns the
\* leaf when every segment of the path resolves through records, and null
\* when the path is empty, a segment is missing or an intermediate value is
\* not a record.
C11_GetFieldTotal ==
    [][call'.op = "get" =>
           /\ row' = row
           /\ raised' = "none"
           /\ call'.result =
                  IF call'.field # <<>> /\ Resolves(row, split(call'.field, DOT))
                  THEN Subtree(row, split(call'.field, DOT))
                  ELSE NoneValue]_vars

\* get_field returned a leaf two records deep.
C11_Witness ==
    /\ call.op = "get"
    /\ Len(split(call.field, DOT)) = 3
    /\ call.result = Scalar("1")

\* An intermediate key of the path holds a value that is not a record.
Blocked(record, keys) ==
    \E i \in 1..(Len(keys) - 1) :
        /\ SubSeq(keys, 1, i) \in DOMAIN record
        /\ record[SubSeq(keys, 1, i)] # "dict"

\* C12: set_field fails with ValueError on the empty path and with
\* TypeError when an intermediate key exists and is not a record; otherwise
\* it creates every missing intermediate record, stores the value at the
\* leaf (overwriting what was there) and leaves the entries off the path.
C12_SetFieldContract ==
    [][call'.op = "set" =>
           LET keys == split(call'.field, DOT)
           IN  IF call'.field = <<>> THEN raised' = "ValueError" /\ row' = row
               ELSE IF Blocked(row, keys) THEN raised' = "TypeError"
               ELSE /\ raised' = "none"
                    /\ \A i \in 1..(Len(keys) - 1) :
                           /\ SubSeq(keys, 1, i) \in DOMAIN row'
                           /\ row'[SubSeq(keys, 1, i)] = "dict"
                    /\ Subtree(row', keys) = call'.value
                    /\ \A q \in DOMAIN row :
                           ~IsPrefix(keys, q) => q \in DOMAIN row' /\ row'[q] = row[q]]_vars

\* set_field failed on a scalar intermediate after an earlier call had
\* created two intermediate records and a leaf.
C12_Witness ==
    /\ call.op = "set"
    /\ raised = "TypeError"
    /\ calls >= 2
    /\ << <<"a">> >> \in DOMAIN row
    /\ \E q \in DOMAIN row : Len(q) = 3


(***************************************************************************)
(* The Registry: add, get, has, components, categories.  A Python dict is  *)
(* a sequence of items [key, value] in insertion order.                    *)
(***************************************************************************)
Categories == {"filter", "tag"}
Identifiers == {"value", "language"}
Classes == {"Map", "Filter", "Writer"}
Keys == Categories \X Identifiers

dict_keys(d) == [i \in 1..Len(d) |-> d[i].key]
dict_has(d, k) == \E i \in 1..Len(d) : d[i].key = k

\* d[k]: the value of the first item under the key.
dict_get(d, k) ==
    d[CHOOSE i \in 1..Len(d) :
          d[i].key = k /\ \A j \in 1..(i - 1) : d[j].key # k].value

\* d[k] = v that always adds an item.
dict_set_append(d, k, v) == Append(d, [key |-> k, value |-> v])

\* d[k] = v: an existing key keeps its place.
dict_set(d, k, v) ==
    IF dict_has(d, k)
    THEN [i \in 1..Len(d) |-> IF d[i].key = k THEN [key |-> k, value |-> v] ELSE d[i]]
    ELSE Append(d, [key |-> k, value |-> v])

\* Registry.add(category, identifier)(cls): the new _classes.
add(c, category, identifier, cls) ==
    IF ~dict_has(c, category)
    THEN dict_set(c, category, <<[key |-> identifier, value |-> cls]>>)
    ELSE dict_set(c, category, dict_set(dict_get(c, category), identifier, cls))

\* Registry._generate_schema: the new _schemas.
generate_schema(sch, category, identifier, cls) ==
    {e \in sch : ~(e[1] = category /\ e[2] = identifier)}
    \cup {<<category, identifier, cls>>}

\* has that looks at the category alone.
registry_has_category(c, category, identifier) == dict_has(c, category)

\* Registry.has
registry_has(c, category, identifier) ==
    dict_has(c, category) /\ dict_has(dict_get(c, category), identifier)

\* Registry.get
registry_get(c, category, identifier) ==
    IF ~dict_has(c, category) THEN Raised("Unknown category")
    ELSE IF ~dict_has(dict_get(c, category), identifier) THEN Raised("Unknown type")
    ELSE Returned(dict_get(dict_get(c, category), identifier))

\* Registry.components
registry_components(c, category) ==
    IF ~dict_has(c, category) THEN Raised("Unknown category")
    ELSE Returned(dict_keys(dict_get(c, category)))

\* Registry.categories
registry_categories(c) == Returned(dict_keys(c))

RegistryInit ==
    /\ DedupIdle
    /\ GopherIdle
    /\ ExtraIdle
    /\ PipeIdle
    /\ PathIdle
    /\ LifeIdle
    /\ RegistryIdle
    /\ BandsIdle
    /\ CounterIdle
    /\ SignatureIdle

nonRegistryVars == <<dedupVars, pipeVars, pathVars, lifeVars, bandVars, counterVars,
                     signatureVars,
        gopherVars, extraVars>>

\* @components.add(category, identifier) on a class.
RegistryAdd(category, identifier, cls) ==
    /\ classes' = add(classes, category, identifier, cls)
    /\ schemas' = IF IsBaseModel(cls)
                  THEN generate_schema(schemas, category, identifier, cls)
                  ELSE schemas
    /\ lookup' = [op |-> "add", category |-> category, identifier |-> identifier,
                  cls |-> cls, result |-> Returned(cls)]
    /\ registered' = [k \in DOMAIN registered \cup {<<category, identifier>>} |->
                          IF k = <<category, identifier>> THEN cls ELSE registered[k]]
    /\ UNCHANGED nonRegistryVars

RegistryGet(category, identifier) ==
    /\ lookup' = [op |-> "get", category |-> category, identifier |-> identifier,
                  cls |-> "", result |-> registry_get(classes, category, identifier)]
    /\ UNCHANGED <<classes, schemas, registered, nonRegistryVars>>

RegistryHas(category, identifier) ==
    /\ lookup' = [op |-> "has", category |-> category, identifier |-> identifier,
                  cls |-> "",
                  result |-> Returned(registry_has(classes, category, identifier))]
    /\ UNCHANGED <<classes, schemas, registered, nonRegistryVars>>

RegistryComponents(category) ==
    /\ lookup' = [op |-> "components", category |-> category, identifier |-> "",
                  cls |-> "", result |-> registry_components(classes, category)]
    /\ UNCHANGED <<classes, schemas, registered, nonRegistryVars>>

RegistryCategories ==
    /\ lookup' = [op |-> "categories", category |-> "", identifier |-> "",
                  cls |-> "", result |-> registry_categories(classes)]
    /\ UNCHANGED <<classes, schemas, registered, nonRegistryVars>>

RegistryNext ==
    \/ \E category \in Categories, identifier \in Identifiers, cls \in Classes :
           RegistryAdd(category, identifier, cls)
    \/ \E category \in Categories, identifier \in Identifiers :
           RegistryGet(category, identifier)
    \/ \E category \in Categories, identifier \in Identifiers :
           RegistryHas(category, identifier)
    \/ \E category \in Categories : RegistryComponents(category)
    \/ RegistryCategories

SpecRegistry == RegistryInit /\ [][RegistryNext]_vars


(***************************************************************************)
(* Claims about the Registry.                                              *)
(***************************************************************************)
\* C13: registration is an idempotent replacement under one key. After any
\* sequence of registrations get returns the class registered last under
\* the key; the decorator returns the class it was given; a registration
\* leaves the entries under other keys as they were; registering the class
\* that is already under the key leaves the registry as it was.
C13_IdempotentReplacement ==
    /\ [](\A k \in DOMAIN registered :
              registry_get(classes, k[1], k[2]) = Returned(registered[k]))
    /\ [][lookup'.op = "add" =>
              LET c == lookup'.category
                  i == lookup'.identifier
              IN  /\ lookup'.result = Returned(lookup'.cls)
                  /\ \A k \in Keys \ {<<c, i>>} :
                         IF registry_has(classes, k[1], k[2])
                         THEN registry_get(classes', k[1], k[2])
                              = registry_get(classes, k[1], k[2])
                         ELSE ~registry_has(classes', k[1], k[2])
                  /\ registry_get(classes, c, i) = Returned(lookup'.cls)
                         => classes' = classes /\ schemas' = schemas]_vars

\* A class was replaced under a key of a category that holds two keys.
C13_Witness ==
    /\ lookup.op = "add"
    /\ Cardinality(DOMAIN registered) >= 3
    /\ \E e \in schemas :
           /\ e[1] = lookup.category
           /\ e[2] = lookup.identifier
           /\ e[3] # lookup.cls
    /\ registry_get(classes, lookup.category, lookup.identifier) = Returned(lookup.cls)

Range(f) == {f[i] : i \in DOMAIN f}

\* C14: lookup consistency. has is true iff get returns a class, and has
\* never raises; get raises 'Unknown category' for a category never
\* registered and 'Unknown type' for an unknown identifier of a registered
\* category; components lists exactly the identifiers registered under the
\* category and raises for a category never registered; a registry without
\* registrations has no categories.
C14_LookupConsistency ==
    /\ \A k \in Keys :
           LET got == registry_get(classes, k[1], k[2])
               known == \E r \in DOMAIN registered : r[1] = k[1]
           IN  /\ registry_has(classes, k[1], k[2]) <=> got.raised = "none"
               /\ got.raised = "none" <=> k \in DOMAIN registered
               /\ got.raised = "none" => got.value \in Classes
               /\ got.raised = "Unknown category" <=> ~known
               /\ got.raised = "Unknown type" <=> (known /\ k \notin DOMAIN registered)
    /\ \A c \in Categories :
           LET listed == registry_components(classes, c)
               ids == {r[2] : r \in {x \in DOMAIN registered : x[1] = c}}
           IN  IF ids = {} THEN listed = Raised("Unknown category")
               ELSE /\ listed.raised = "none"
                    /\ Range(listed.value) = ids
                    /\ Len(listed.value) = Cardinality(ids)
    /\ Range(registry_categories(classes).value) = {r[1] : r \in DOMAIN registered}
    /\ lookup.op = "has" => lookup.result.raised = "none" /\ lookup.result.value \in BOOLEAN
    /\ lookup.op = "get" =>
           lookup.result = registry_get(classes, lookup.category, lookup.identifier)

\* get raised 'Unknown type' in a registry of two categories, one of them
\* holding both identifiers.
C14_Witness ==
    /\ lookup.op = "get"
    /\ lookup.result = Raised("Unknown type")
    /\ Len(classes) = 2
    /\ \E c \in Categories : Len(registry_components(classes, c).value) = 2


(***************************************************************************)
(* Band geometry.  Floats are fixed-point numbers in units of 1 / Scale.   *)
(***************************************************************************)
MaxPermutations == 6   \* largest lsh_permutations
Scale == 20            \* resolution of the thresholds

Abs(x) == IF x < 0 THEN -x ELSE x

\* (1.0 / b) ** (1.0 / r): the largest x with (x / Scale) ^ r <= 1 / b.
estimated_threshold(b, r) ==
    CHOOSE x \in 0..Scale :
        /\ (x ^ r) * b <= Scale ^ r
        /\ \A y \in (x + 1)..Scale : (y ^ r) * b > Scale ^ r

\* abs(estimated_threshold - self.lsh_threshold)
band_error(P, tau, b) == Abs(estimated_threshold(b, P \div b) - tau)

\* The loop that also takes a divisor whose error equals the best one.
RECURSIVE set_bands_last(_, _, _, _)
set_bands_last(P, tau, b, best) ==
    IF b > P THEN [b |-> best.b, r |-> best.r]
    ELSE IF P % b = 0 /\ (best.inf \/ band_error(P, tau, b) <= best.error)
         THEN set_bands_last(P, tau, b + 1,
                             [b |-> b, r |-> P \div b, inf |-> FALSE,
                              error |-> band_error(P, tau, b)])
         ELSE set_bands_last(P, tau, b + 1, best)

\* _set_bands, the loop from divisor candidate b on; best.inf stands for
\* best_error = float("inf").
RECURSIVE set_bands_loop(_, _, _, _)
set_bands_loop(P, tau, b, best) ==
    IF b > P THEN [b |-> best.b, r |-> best.r]
    ELSE IF P % b = 0 /\ (best.inf \/ band_error(P, tau, b) < best.error)
         THEN set_bands_loop(P, tau, b + 1,
                             [b |-> b, r |-> P \div b, inf |-> FALSE,
                              error |-> band_error(P, tau, b)])
         ELSE set_bands_loop(P, tau, b + 1, best)

\* BandedBloomFilter._set_bands
set_bands(P, tau) ==
    set_bands_loop(P, tau, 1, [b |-> 1, r |-> P, inf |-> TRUE, error |-> 0])

BandsInit ==
    /\ DedupIdle
    /\ GopherIdle
    /\ ExtraIdle
    /\ PipeIdle
    /\ PathIdle
    /\ LifeIdle
    /\ RegistryIdle
    /\ permutations \in 1..MaxPermutations
    /\ threshold \in 0..Scale
    /\ geometry = NoGeometry
    /\ CounterIdle
    /\ SignatureIdle

nonBandVars == <<dedupVars, pipeVars, pathVars, lifeVars, registryVars, counterVars,
                 signatureVars,
        gopherVars, extraVars>>

\* self.num_bands, self.band_size = self._set_bands()
SetBands ==
    /\ ~geometry.set
    /\ geometry' = [set |-> TRUE] @@ set_bands(permutations, threshold)
    /\ UNCHANGED <<permutations, threshold, nonBandVars>>

BandsNext == SetBands

SpecBands == BandsInit /\ [][BandsNext]_vars

Divisors(P) == {b \in 1..P : P % b = 0}

\* C15: band geometry. _set_bands returns (B, R) with B >= 1, R >= 1 and
\* B * R = P whose error |threshold - (1/B)^(1/R)| is the least over all
\* divisors B of P, and B is the smallest divisor with that error.
C15_BandGeometry ==
    geometry.set =>
        /\ geometry.b >= 1
        /\ geometry.r >= 1
        /\ geometry.b * geometry.r = permutations
        /\ \A d \in Divisors(permutations) :
               /\ band_error(permutations, threshold, geometry.b)
                     <= band_error(permutations, threshold, d)
               /\ band_error(permutations, threshold, d)
                     = band_error(permutations, threshold, geometry.b)
                  => geometry.b <= d

\* Two divisors of P tie for the least error and a third one loses.
C15_Witness ==
    /\ geometry.set
    /\ \E d \in Divisors(permutations) \ {geometry.b} :
           band_error(permutations, threshold, d)
              = band_error(permutations, threshold, geometry.b)
    /\ \E d \in Divisors(permutations) :
           band_error(permutations, threshold, d)
              > band_error(permutations, threshold, geometry.b)
    /\ geometry.b > 1


(***************************************************************************)
(* The Counter aggregation.  A counted element is a sequence of integers:  *)
(* <<v>> is the value v, and the tuple (e, n) is e \o <<n>>.  A Python     *)
(* object is a list of elements or a Counter of elements.                  *)
(***************************************************************************)
MaxCells == 3          \* rows of the dataset
NumValues == 2         \* distinct values of the `on` column

List(items) == [kind |-> "list", items |-> items, count |-> <<>>]
CounterOf(count) == [kind |-> "Counter", items |-> <<>>, count |-> count]

\* Counter(iterable): a Counter is copied, the elements of a list counted.
Counter(x) ==
    IF x.kind = "Counter" THEN x
    ELSE CounterOf([e \in Range(x.items) |->
                       Cardinality({i \in 1..Len(x.items) : x.items[i] = e})])

\* Counter + Counter
counter_add(x, y) ==
    CounterOf([e \in DOMAIN x.count \cup DOMAIN y.count |->
                  (IF e \in DOMAIN x.count THEN x.count[e] ELSE 0)
                  + (IF e \in DOMAIN y.count THEN y.count[e] ELSE 0)])

\* The (element, count) tuples by falling count; among equal counts Python
\* keeps the order of insertion, here a fixed order stands for it.
RECURSIVE sorted_items(_)
sorted_items(count) ==
    IF DOMAIN count = {} THEN <<>>
    ELSE LET e == CHOOSE x \in DOMAIN count : \A y \in DOMAIN count : count[y] <= count[x]
         IN  <<e \o <<count[e]>>>>
             \o sorted_items([x \in DOMAIN count \ {e} |-> count[x]])

\* Counter.most_common(k); a list has no such method.
most_common(x, k) ==
    IF x.kind # "Counter" THEN [raised |-> "AttributeError", items |-> <<>>]
    ELSE LET items == sorted_items(x.count)
         IN  [raised |-> "none",
              items |-> IF k.set THEN SubSeq(items, 1, Min(k.k, Len(items)))
                        ELSE items]

\* CounterAggregation.__call__ builds CounterAggFn without top_k, which
\* then has its default.
self_top_k(configured) == NoTopK

\* CounterAggFn.aggregate_block
aggregate_block(block, k) ==
    List(most_common(Counter(List([i \in 1..Len(block) |-> <<block[i]>>])), k).items)

\* CounterAggFn.combine
combine(current_accumulator, new) ==
    counter_add(Counter(new), Counter(current_accumulator))

\* CounterAggFn.finalize
finalize(accumulator, k) == most_common(accumulator, k)

RECURSIVE Flatten(_)
Flatten(bs) == IF bs = <<>> THEN <<>> ELSE bs[1] \o Flatten(Tail(bs))

Cells == UNION {[1..n -> 1..NumValues] : n \in 0..MaxCells}

\* The column cut into blocks after the positions of `cuts`.
RECURSIVE Split(_, _, _)
Split(column, cuts, from) ==
    IF from > Len(column) THEN <<>>
    ELSE LET ahead == {c \in cuts : from <= c /\ c < Len(column)}
             to == IF ahead = {} THEN Len(column)
                   ELSE CHOOSE c \in ahead : \A d \in ahead : c <= d
         IN  <<SubSeq(column, from, to)>> \o Split(column, cuts, to + 1)

\* The splits of the dataset into non-empty blocks.
Partitions ==
    {Split(column, cuts, 1) :
        column \in Cells, cuts \in SUBSET (1..(MaxCells - 1))}

TopKs == {NoTopK, [set |-> TRUE, k |-> 1]}

Remove(seq, drop) ==
    LET keep == {i \in 1..Len(seq) : i \notin drop}
        RECURSIVE pick(_)
        pick(i) == IF i > Len(seq) THEN <<>>
                   ELSE (IF i \in keep THEN <<seq[i]>> ELSE <<>>) \o pick(i + 1)
    IN  pick(1)

\* ds.aggregate(agg()): the reduce starts from the partial results of the
\* blocks alone or from zero_factory() as well.
CounterInit ==
    /\ DedupIdle
    /\ GopherIdle
    /\ ExtraIdle
    /\ PipeIdle
    /\ PathIdle
    /\ LifeIdle
    /\ RegistryIdle
    /\ BandsIdle
    /\ blocks \in Partitions
    /\ top_k \in TopKs
    /\ aggregated = {}
    /\ accumulators \in {<<>>, <<CounterOf(<<>>)>>}
    /\ final = NoFinal
    /\ SignatureIdle

nonCounterVars == <<dedupVars, pipeVars, pathVars, lifeVars, registryVars, bandVars,
                    signatureVars,
        gopherVars, extraVars>>

AggregateBlock(i) ==
    /\ i \notin aggregated
    /\ aggregated' = aggregated \cup {i}
    /\ accumulators' = Append(accumulators, aggregate_block(blocks[i], self_top_k(top_k)))
    /\ UNCHANGED <<blocks, top_k, final, nonCounterVars>>

Combine(i, j) ==
    /\ i # j
    /\ accumulators' = Append(Remove(accumulators, {i, j}),
                              combine(accumulators[i], accumulators[j]))
    /\ UNCHANGED <<blocks, top_k, aggregated, final, nonCounterVars>>

Finalize ==
    /\ ~final.set
    /\ aggregated = DOMAIN blocks
    /\ Len(accumulators) = 1
    /\ final' = [set |-> TRUE] @@ finalize(accumulators[1], self_top_k(top_k))
    /\ UNCHANGED <<blocks, top_k, aggregated, accumulators, nonCounterVars>>

CounterNext ==
    \/ \E i \in DOMAIN blocks : AggregateBlock(i)
    \/ \E i, j \in DOMAIN accumulators : ~final.set /\ Combine(i, j)
    \/ Finalize

SpecCounter == CounterInit /\ [][CounterNext]_vars

\* The multiset of the `on` values of the whole dataset.
Whole == Counter(List([i \in 1..Len(Flatten(blocks)) |-> <<Flatten(blocks)[i]>>]))

\* C16: the Counter aggregation is partition-independent. However the
\* dataset is split and the partial results are combined, finalize returns
\* without failing the (value, count) entries of the multiset of all `on`
\* values: all of them when top_k is null, else top_k entries of greatest
\* count.
C16_PartitionIndependent ==
    final.set =>
        LET entries == Range(sorted_items(Whole.count))
            chosen == Range(final.items)
        IN  /\ final.raised = "none"
            /\ chosen \subseteq entries
            /\ Len(final.items) = Cardinality(chosen)
            /\ IF top_k.set
               THEN /\ Cardinality(chosen) = Min(top_k.k, Cardinality(entries))
                    /\ \A x \in chosen, y \in entries \ chosen :
                           y[Len(y)] <= x[Len(x)]
               ELSE chosen = entries


(***************************************************************************)
(* Signature objects.  numpy's global generator is a stand-in of the       *)
(* width of the hashes: seeding sets its state, every draw advances it.    *)
(***************************************************************************)
MaxInstances == 2      \* Signature objects built
NumSeeds == 2          \* distinct seeds

Seeds == 0..(NumSeeds - 1)
SigTexts == {<<"a">>, <<"a", SP, "a">>, <<"a", NL, "b">>}

rng_step(x) == (x * 5 + 3) % (max_val + 1)

\* A constructor that draws without seeding the generator.
rng_unseeded(x, seed) == x

\* np.random.seed(seed)
rng_seed(x, seed) == (seed * 7 + 1) % (max_val + 1)

\* np.random.randint(low, high, n): the values drawn and the state after.
RECURSIVE randint(_, _, _, _)
randint(x, low, high, n) ==
    IF n = 0 THEN [values |-> <<>>, rng |-> x]
    ELSE LET rest == randint(rng_step(x), low, high, n - 1)
         IN  [values |-> <<low + (rng_step(x) % (high - low))>> \o rest.values,
              rng |-> rest.rng]

\* Signature.__init__: the object and the generator afterwards.
signature_init(x, seed) ==
    LET a == randint(rng_seed(x, seed), 1, max_val, lsh_permutations)
        b == randint(a.rng, 0, max_val, lsh_permutations)
    IN  [self |-> [seed |-> seed, a |-> a.values, b |-> b.values], rng |-> b.rng]

\* Signature.__call__, the bands cast to the unsigned width.
signature_call(self, text) ==
    LET bands == get_band_signature(minhash_with(self.a, self.b, get_shingles(text)))
    IN  [k \in 1..Len(bands) |-> bands[k] % (max_val + 1)]

SignatureInit ==
    /\ DedupIdle
    /\ GopherIdle
    /\ ExtraIdle
    /\ PipeIdle
    /\ PathIdle
    /\ LifeIdle
    /\ RegistryIdle
    /\ BandsIdle
    /\ CounterIdle
    /\ rng \in 0..max_val
    /\ instances = <<>>
    /\ firstsig = NoSig
    /\ lastsig = NoSig

nonSignatureVars == <<dedupVars, pipeVars, pathVars, lifeVars, registryVars, bandVars,
                      counterVars,
        gopherVars, extraVars>>

\* Signature(..., seed=seed)
NewSignature(seed) ==
    /\ Len(instances) < MaxInstances
    /\ LET new == signature_init(rng, seed)
       IN  /\ instances' = Append(instances, new.self)
           /\ rng' = new.rng
    /\ UNCHANGED <<firstsig, lastsig, nonSignatureVars>>

\* instances[i](text)
CallSignature(i, text) ==
    /\ lastsig' = [set |-> TRUE, instance |-> i, text |-> text,
                   value |-> signature_call(instances[i], text)]
    /\ firstsig' = IF firstsig.set THEN firstsig ELSE lastsig'
    /\ UNCHANGED <<rng, instances, nonSignatureVars>>

\* Other code of the process draws from the global generator.
DrawElsewhere ==
    /\ rng' = rng_step(rng)
    /\ UNCHANGED <<instances, firstsig, lastsig, nonSignatureVars>>

SignatureNext ==
    \/ \E seed \in Seeds : NewSignature(seed)
    \/ \E i \in DOMAIN instances, text \in SigTexts : CallSignature(i, text)
    \/ DrawElsewhere

SpecSignature == SignatureInit /\ [][SignatureNext]_vars

\* C17: signature determinism. Two calls on the same text, on one instance
\* or on two instances built with the same seed, return the same vector of
\* num_bands unsigned values, whatever was computed in between.
C17_SignatureDeterministic ==
    (firstsig.set /\ lastsig.set) =>
        /\ Len(lastsig.value) = num_bands
        /\ \A k \in 1..num_bands : lastsig.value[k] \in 0..max_val
        /\ (/\ instances[firstsig.instance].seed = instances[lastsig.instance].seed
            /\ firstsig.text = lastsig.text)
           => firstsig.value = lastsig.value

\* The same text went through two instances of one seed, another text in
\* between giving another signature.
C17_Witness ==
    /\ firstsig.set
    /\ lastsig.set
    /\ firstsig.instance # lastsig.instance
    /\ instances[firstsig.instance].seed = instances[lastsig.instance].seed
    /\ firstsig.text = lastsig.text
    /\ \E seed \in Seeds : signature_init(rng, seed).self.a # instances[1].a
    /\ \E text \in SigTexts : signature_call(instances[1], text) # firstsig.value


\* C18: Bloom state lifetime. The Bloom state a stage works on was created
\* by the construction of that very stage, with that stage's parameters:
\* no stage works on the state an earlier stage created.
C18_StateCreatedPerStage ==
    (run >= 1 /\ actor = "alive") => (made.run = run /\ made.params = stage)


(***************************************************************************)
(* GopherRepetitionTagger.  A text is a sequence of characters; a ratio    *)
(* a / b is kept as the pair <<a, b>> of the two integers divided.         *)
(***************************************************************************)
MaxSampleLen == 7      \* longest text handed to the tagger

SampleAlphabet == {"A", NL, SP}
SampleTexts == UNION {[1..n -> SampleAlphabet] : n \in 0..MaxSampleLen}

on == <<"text">>
to == <<"metadata", DOT, "gopher_repetition">>

\* The n-gram sizes: the defaults, and sizes that fit the short texts.
TopNGrams == {<<2, 3, 4>>, <<1, 2>>}
DupNGrams == {<<5, 6, 7, 8, 9, 10>>, <<1, 2>>}

Ratio(a, b) == <<a, b>>
Zero == Ratio(0, 1)
One == Ratio(1, 1)
Max(x, y) == IF x >= y THEN x ELSE y

RECURSIVE lstrip(_)
lstrip(s) ==
    IF s # <<>> /\ s[1] \in Whitespace THEN lstrip(Tail(s)) ELSE s

RECURSIVE rstrip(_)
rstrip(s) ==
    IF s # <<>> /\ s[Len(s)] \in Whitespace
    THEN rstrip(SubSeq(s, 1, Len(s) - 1)) ELSE s

strip(s) == rstrip(lstrip(s))

\* The newlines at the head of s.
RECURSIVE newlines(_)
newlines(s) == IF s # <<>> /\ s[1] = NL THEN 1 + newlines(Tail(s)) ELSE 0

\* re.split of a pattern that matches `least` newlines or more, greedily:
\* `piece` is the part of the current element read so far.
RECURSIVE re_split_from(_, _, _)
re_split_from(s, least, piece) ==
    IF s = <<>> THEN <<piece>>
    ELSE LET k == newlines(s)
         IN  IF k >= least
             THEN <<piece>>
                  \o re_split_from(SubSeq(s, k + 1, Len(s)), least, <<>>)
             ELSE IF k > 0
                  THEN re_split_from(SubSeq(s, k + 1, Len(s)), least,
                                     piece \o SubSeq(s, 1, k))
                  ELSE re_split_from(Tail(s), least, Append(piece, s[1]))

par_splitter(s) == re_split_from(s, 2, <<>>)
line_splitter(s) == re_split_from(s, 1, <<>>)

\* "".join(parts)
RECURSIVE concat(_)
concat(parts) == IF parts = <<>> THEN <<>> ELSE parts[1] \o concat(Tail(parts))

\* words[i : i + n] of Python, i counted from 0.
slice(list, i, n) == SubSeq(list, i + 1, Min(i + n, Len(list)))

\* _get_n_grams
gopher_n_grams(list, n) ==
    [i \in 1..Max(Len(list) - n + 1, 0) |-> join(slice(list, i - 1, n), SP)]

\* An element counted whenever it occurs more than once, its first
\* occurrence included.
find_duplicates_every(x) ==
    LET again == {i \in 1..Len(x) : \E j \in 1..Len(x) : j # i /\ x[j] = x[i]}
    IN  <<Cardinality(again),
          Cardinality({<<i, c>> \in again \X (1..(MaxSampleLen + 2)) :
                          c <= Len(x[i])})>>

RECURSIVE find_duplicates_loop(_, _, _, _, _)
find_duplicates_loop(x, i, unique_x, duplicate_elements, duplicate_chars) ==
    IF i > Len(x) THEN <<duplicate_elements, duplicate_chars>>
    ELSE IF x[i] \in unique_x
         THEN find_duplicates_loop(x, i + 1, unique_x, duplicate_elements + 1,
                                   duplicate_chars + Len(x[i]))
         ELSE find_duplicates_loop(x, i + 1, unique_x \cup {x[i]},
                                   duplicate_elements, duplicate_chars)

\* _find_duplicates
find_duplicates(x) == find_duplicates_loop(x, 1, {}, 0, 0)

\* _find_top_duplicate: Counter.most_common(1) is the element counted most
\* often, the one met first among equals.
find_top_duplicate(x) ==
    IF x = <<>> THEN 0
    ELSE LET count(e) == Cardinality({i \in 1..Len(x) : x[i] = e})
             best == CHOOSE i \in 1..Len(x) :
                         /\ \A j \in 1..Len(x) : count(x[j]) <= count(x[i])
                         /\ \A j \in 1..(i - 1) : count(x[j]) < count(x[i])
         IN  Len(x[best]) * count(x[best])

RECURSIVE find_all_duplicate_loop(_, _, _, _, _)
find_all_duplicate_loop(list, n, idx, unique, repeated_chars) ==
    IF ~(idx < Len(list) - n + 1) THEN repeated_chars
    ELSE LET n_gram == concat(slice(list, idx, n))
         IN  IF n_gram \in unique
             THEN find_all_duplicate_loop(list, n, idx + n, unique,
                                          repeated_chars + Len(n_gram))
             ELSE find_all_duplicate_loop(list, n, idx + 1,
                                          unique \cup {n_gram}, repeated_chars)

\* _find_all_duplicate
find_all_duplicate(list, n) == find_all_duplicate_loop(list, n, 0, {}, 0)

\* `if not text`, for what get_field returned: None or the empty string.
NotTextValue(value, chars) ==
    value = NoneValue \/ (value = Scalar("str") /\ chars = <<>>)

\* __call__, the record built for an empty text.
default_values(self) ==
    [fields |-> ("dup_line_frac" :> Zero) @@ ("dup_para_frac" :> Zero)
                @@ ("dup_line_char_frac" :> Zero)
                @@ ("dup_para_char_frac" :> Zero)
                @@ ("overall_score" :> One),
     top |-> [n \in Range(self.top_n_grams) |-> Zero],
     dup |-> [n \in Range(self.dup_n_grams) |-> Zero]]

\* __call__, the record built for a text that is not empty.
repetition_data(text, self) ==
    LET text_len == Len(text)
        paragraphs == par_splitter(strip(text))
        para == find_duplicates(paragraphs)
        lines == line_splitter(text)
        line == find_duplicates(lines)
        list == split(join(split(text, SP), SP), SP)
    IN  [fields |->
            ("dup_para_frac" :>
                 IF paragraphs # <<>> THEN Ratio(para[1], Len(paragraphs))
                 ELSE Zero)
            @@ ("dup_para_char_frac" :>
                 IF paragraphs # <<>> THEN Ratio(para[2], Max(text_len, 1))
                 ELSE Zero)
            @@ ("dup_line_frac" :>
                 IF lines # <<>> THEN Ratio(line[1], Len(lines)) ELSE Zero)
            @@ ("dup_line_char_frac" :>
                 IF lines # <<>> THEN Ratio(line[2], Max(text_len, 1))
                 ELSE Zero),
         top |-> [n \in Range(self.top_n_grams) |->
                     IF gopher_n_grams(list, n) # <<>>
                     THEN Ratio(find_top_duplicate(gopher_n_grams(list, n)),
                                Max(text_len, 1))
                     ELSE Zero],
         dup |-> [n \in Range(self.dup_n_grams) |->
                     Ratio(find_all_duplicate(list, n), Max(text_len, 1))]]

\* GopherRepetitionTagger.__call__: the row afterwards, what was raised and
\* the record handed to set_field.
gopher_repetition(record, chars, self) ==
    LET text == get_field(record, on)
        data == IF NotTextValue(text, chars) THEN default_values(self)
                ELSE repetition_data(chars, self)
        set == set_field(record, to, Scalar("record"))
    IN  [row |-> set.row, err |-> set.err, data |-> data]

\* The rows: the text missing, None or a string; `metadata` missing, a
\* record or a value that is no record.
TextLeaves == {"missing", "None", "str"}
MetadataLeaves == {"missing", "dict", "1"}

Sample(text, metadata) ==
    LET with == IF text = "missing" THEN EmptyDict
                ELSE EmptyDict @@ (<< <<"text">> >> :> text)
    IN  IF metadata = "missing" THEN with
        ELSE with @@ (<< <<"metadata">> >> :> metadata)

GopherInit ==
    /\ DedupIdle
    /\ ExtraIdle
    /\ PipeIdle
    /\ PathIdle
    /\ LifeIdle
    /\ RegistryIdle
    /\ BandsIdle
    /\ CounterIdle
    /\ SignatureIdle
    /\ \E text \in TextLeaves, metadata \in MetadataLeaves :
           /\ sample = Sample(text, metadata)
           /\ content \in (IF text = "str" THEN SampleTexts ELSE {<<>>})
    /\ grams \in [top_n_grams : TopNGrams, dup_n_grams : DupNGrams]
    /\ repetition = NoRepetition

nonGopherVars == <<dedupVars, pipeVars, pathVars, lifeVars, registryVars, bandVars,
                   counterVars, signatureVars, extraVars>>

\* tagger(row)
Tag ==
    /\ ~repetition.called
    /\ LET r == gopher_repetition(sample, content, grams)
       IN  /\ sample' = r.row
           /\ repetition' =
                 [called |-> TRUE, raised |-> r.err,
                  text |-> get_field(sample, on),
                  fields |-> r.data.fields, top |-> r.data.top,
                  dup |-> r.data.dup]
    /\ UNCHANGED <<content, grams, nonGopherVars>>

GopherNext == Tag

SpecGopher == GopherInit /\ [][GopherNext]_vars


\* The call under consideration was made on a row without text.
EmptyInput == repetition.called /\ NotTextValue(repetition.text, content)

\* C19: Gopher repetition, empty input. For a row whose text is empty or
\* missing the tagger does not fail and writes to `to` a record whose
\* fields, every ratio of every configured n included, are all 0.
C19_EmptyInputZeroRecord ==
    EmptyInput =>
        /\ repetition.raised = "none"
        /\ get_field(sample, to) = Scalar("record")
        /\ \A k \in DOMAIN repetition.fields : repetition.fields[k][1] = 0
        /\ DOMAIN repetition.top = Range(grams.top_n_grams)
        /\ \A n \in DOMAIN repetition.top : repetition.top[n][1] = 0
        /\ DOMAIN repetition.dup = Range(grams.dup_n_grams)
        /\ \A n \in DOMAIN repetition.dup : repetition.dup[n][1] = 0

\* The text "A\n\nA\n\nA".
PureDuplicates == <<"A", NL, NL, "A", NL, NL, "A">>

\* Two ratios are the same number.
SameRatio(p, q) == p[1] * q[2] = q[1] * p[2]

\* The elements of x that occurred before, and the characters they hold.
Duplicates(x) == {i \in 1..Len(x) : \E j \in 1..(i - 1) : x[j] = x[i]}
DuplicateChars(x) ==
    Cardinality({<<i, c>> \in Duplicates(x) \X (1..Len(concat(x))) :
                    c <= Len(x[i])})

\* The general rule of C20 for the call made on a text that is not empty:
\* the record is at `to` and holds these ratios.
DuplicateRule ==
    LET paragraphs == par_splitter(strip(content))
        lines == line_splitter(content)
        t == Max(Len(content), 1)
    IN  /\ get_field(sample, to) = Scalar("record")
        /\ repetition.fields["dup_para_frac"]
               = Ratio(Cardinality(Duplicates(paragraphs)), Len(paragraphs))
        /\ repetition.fields["dup_line_frac"]
               = Ratio(Cardinality(Duplicates(lines)), Len(lines))
        /\ repetition.fields["dup_para_char_frac"]
               = Ratio(DuplicateChars(paragraphs), t)
        /\ repetition.fields["dup_line_char_frac"]
               = Ratio(DuplicateChars(lines), t)

\* The call under consideration was made on a text that is not empty, and
\* returned.
Tagged ==
    /\ repetition.called
    /\ ~NotTextValue(repetition.text, content)
    /\ repetition.raised = "none"

MaxLangs == 2          \* longest list of names or scores

en == <<"e", "n">>
de == <<"d", "e">>
ar == <<"a", "r">>
arz == <<"a", "r", "z">>
LangCodes == {en, de, ar, arz}
Scores == {0, 3, 9}

\* The values found under "names" and "scores": nothing, a list or a scalar.
Missing == [kind |-> "missing", items |-> <<>>]
ListOf(items) == [kind |-> "list", items |-> items]
ScalarOf(kind, item) == [kind |-> kind, items |-> <<item>>]

NamesValues ==
    {Missing} \cup {ListOf(l) : l \in UNION {[1..n -> LangCodes] : n \in 0..MaxLangs}}
    \cup {ScalarOf("str", c) : c \in LangCodes \cup {<<>>}}
ScoresValues ==
    {Missing} \cup {ListOf(l) : l \in UNION {[1..n -> Scores] : n \in 0..MaxLangs}}
    \cup {ScalarOf("float", x) : x \in Scores}

\* allowed_languages: a string, or a list or set of strings.
AllowedValues ==
    {[kind |-> "str", value |-> {c}] : c \in {en, arz}}
    \cup {[kind |-> "set", value |-> v] : v \in {{en}, {en, de}, {arz}}}

LanguageFilters ==
    [kind : {"language"}, if_missing : BOOLEAN, allowed_languages : AllowedValues,
     min_confidence : {0, 5}, allow_partial_match : BOOLEAN]

LanguageData ==
    {NoDatum} \cup [kind : {"dict"}, names : NamesValues, scores : ScoresValues]

\* x in y of Python, for y a string: x occurs in y.
str_contains(y, x) ==
    \E k \in 0..(Len(y) - Len(x)) : SubSeq(y, k + 1, k + Len(x)) = x

\* lang in self.allowed_languages
contains(allowed, lang) ==
    IF allowed.kind = "str"
    THEN \E y \in allowed.value : str_contains(y, lang)
    ELSE lang \in allowed.value

\* not x, for the value found under a key: None, [], "" and 0.0 are false.
falsy(x) ==
    \/ x.kind = "missing"
    \/ x.kind = "list" /\ x.items = <<>>
    \/ x.kind = "str" /\ x.items[1] = <<>>
    \/ x.kind = "float" /\ x.items[1] = 0

\* zip(names, scores, strict=False)
zip(xs, ys) == [k \in 1..Min(Len(xs), Len(ys)) |-> <<xs[k], ys[k]>>]

\* LanguageFilter.__call__
language_filter(self, langs) ==
    LET names == IF langs.kind = "missing" THEN Missing ELSE langs.names
        scores == IF langs.kind = "missing" THEN Missing ELSE langs.scores
        matches == [k \in DOMAIN zip(names.items, scores.items) |->
                       /\ contains(self.allowed_languages,
                                   zip(names.items, scores.items)[k][1])
                       /\ zip(names.items, scores.items)[k][2] >= self.min_confidence]
    IN  IF falsy(names) \/ falsy(scores) THEN self.if_missing
        ELSE IF self.allow_partial_match
             THEN \E k \in DOMAIN matches : matches[k]
             ELSE \A k \in DOMAIN matches : matches[k]

(***************************************************************************)
(* OCRQualityFilter and GopherRepetitionFilter.  Metrics and thresholds    *)
(* are counted in hundredths.                                              *)
(***************************************************************************)
\* stats.get(key, default)
stats_get(stats, key, default) == IF key \in DOMAIN stats THEN stats[key] ELSE default

\* not stats: None and the empty record are false.
no_stats(value) == value.kind = "missing" \/ DOMAIN value.stats = {}

\* The defaults of the thresholds of OCRQualityFilter.
OCRThresholds ==
    [max_spacing_anomaly_ratio |-> 15, max_case_anomaly_ratio |-> 10,
     max_word_fragment_ratio |-> 20, max_line_artifact_ratio |-> 25,
     max_special_char_density |-> 3, max_repeated_char_ratio |-> 5,
     max_numeric_context_errors |-> 8, max_avg_length |-> 900,
     min_avg_length |-> 500, max_std_length |-> 500, min_std_length |-> 100,
     max_ratio_short |-> 10, max_ratio_long |-> 10]

\* filter_mode as written in the configuration, "omitted" when it is not.
GivenModes == {"omitted", "any", "maj", "all", "strict", "lenient"}

\* OCRQualityFilter(**params): pydantic checks a given filter_mode against
\* the Literal and takes the default as it is.
ocr_construct(given, if_missing) ==
    IF given = "omitted"
    THEN [kind |-> "ocr", given |-> given, filter_mode |-> "strict",
          if_missing |-> if_missing]
    ELSE IF given \in {"any", "maj", "all"}
         THEN [kind |-> "ocr", given |-> given, filter_mode |-> given,
               if_missing |-> if_missing]
         ELSE [kind |-> "rejected", given |-> given, filter_mode |-> "",
               if_missing |-> if_missing]

\* The tuple `hits` of OCRQualityFilter.__call__.
ocr_hits(self, stats) ==
    << stats_get(stats, "spacing_anomaly_ratio", 0) > OCRThresholds.max_spacing_anomaly_ratio,
       stats_get(stats, "case_anomaly_ratio", 0) > OCRThresholds.max_case_anomaly_ratio,
       stats_get(stats, "word_fragment_ratio", 0) > OCRThresholds.max_word_fragment_ratio,
       stats_get(stats, "line_artifact_ratio", 0) > OCRThresholds.max_line_artifact_ratio,
       stats_get(stats, "special_char_density", 0) > OCRThresholds.max_special_char_density,
       stats_get(stats, "repeated_char_ratio", 0) > OCRThresholds.max_repeated_char_ratio,
       stats_get(stats, "numeric_context_errors", 0) > OCRThresholds.max_numeric_context_errors,
       stats_get(stats, "word_length_avg", 0) > OCRThresholds.max_avg_length,
       stats_get(stats, "word_length_avg", 0) < OCRThresholds.min_avg_length,
       stats_get(stats, "word_length_std", 0) > OCRThresholds.max_std_length,
       stats_get(stats, "word_length_std", 0) > OCRThresholds.min_std_length,
       stats_get(stats, "ratio_very_short_words", 0) > OCRThresholds.max_ratio_short,
       stats_get(stats, "ratio_very_long_words", 0) > OCRThresholds.max_ratio_long >>

Count(hits) == Cardinality({k \in 1..Len(hits) : hits[k]})

\* OCRQualityFilter.__call__
ocr_filter(self, value) ==
    IF no_stats(value) THEN self.if_missing
    ELSE LET hits == ocr_hits(self, value.stats)
         IN  IF self.filter_mode = "strict" THEN \E k \in 1..Len(hits) : hits[k]
             ELSE IF self.filter_mode = "lenient"
                  THEN 2 * Count(hits) >= Len(hits)
             ELSE IF self.filter_mode = "all" THEN \A k \in 1..Len(hits) : hits[k]
             ELSE self.if_missing

OCRKeys == {"spacing_anomaly_ratio", "word_length_avg", "word_length_std",
            "ratio_very_long_words"}
OCRValues == {0, 50, 700}
StatsOver(keys, values) ==
    {NoDatum} \cup {[kind |-> "dict", stats |-> f] :
                       f \in UNION {[K -> values] : K \in SUBSET keys}}

OCRFilters == {ocr_construct(given, if_missing) :
                  given \in GivenModes, if_missing \in BOOLEAN}

\* f"top_{n}_gram_char_frac" and f"dup_{n}_gram_char_frac"
top_key(n) ==
    CASE n = 2 -> "top_2_gram_char_frac" [] n = 3 -> "top_3_gram_char_frac"
      [] OTHER -> "top_4_gram_char_frac"
dup_key(n) ==
    CASE n = 5 -> "dup_5_gram_char_frac" [] n = 6 -> "dup_6_gram_char_frac"
      [] n = 7 -> "dup_7_gram_char_frac" [] n = 8 -> "dup_8_gram_char_frac"
      [] n = 9 -> "dup_9_gram_char_frac" [] OTHER -> "dup_10_gram_char_frac"

\* A threshold that may be None.
NoMax == [set |-> FALSE, value |-> 0]
MaxOf(x) == [set |-> TRUE, value |-> x]

\* The defaults of GopherRepetitionFilter, and the same without the four
\* thresholds that may be None.
RepetitionFilters ==
    [kind : {"repetition"}, if_missing : BOOLEAN,
     max_dup_line_frac : {MaxOf(25), NoMax},
     max_dup_line_char_frac : {MaxOf(15)},
     max_dup_para_frac : {MaxOf(30), NoMax},
     max_dup_para_char_frac : {MaxOf(20)},
     top_n_gram_thresholds : {<< <<2, 7>>, <<3, 10>>, <<4, 13>> >>, << <<2, 7>> >>},
     dup_n_gram_thresholds :
         {<< <<5, 39>>, <<6, 39>>, <<7, 38>>, <<8, 38>>, <<9, 37>>, <<10, 37>> >>}]

\* self.max_x is not None and stats.get(key, 0) > self.max_x
above(max, stats, key) == max.set /\ stats_get(stats, key, 0) > max.value

\* The n-gram checks combined so that every threshold must hold.
repetition_ngrams_within(self, stats) ==
    /\ \A k \in 1..Len(self.top_n_gram_thresholds) :
           stats_get(stats, top_key(self.top_n_gram_thresholds[k][1]), 0)
               <= self.top_n_gram_thresholds[k][2]
    /\ \A k \in 1..Len(self.dup_n_gram_thresholds) :
           stats_get(stats, dup_key(self.dup_n_gram_thresholds[k][1]), 0)
               <= self.dup_n_gram_thresholds[k][2]

\* GopherRepetitionFilter.__call__, the n-gram checks: `top or dup`.
repetition_ngrams(self, stats) ==
    LET top == \A k \in 1..Len(self.top_n_gram_thresholds) :
                   stats_get(stats, top_key(self.top_n_gram_thresholds[k][1]), 0)
                       > self.top_n_gram_thresholds[k][2]
        dup == \A k \in 1..Len(self.dup_n_gram_thresholds) :
                   stats_get(stats, dup_key(self.dup_n_gram_thresholds[k][1]), 0)
                       <= self.dup_n_gram_thresholds[k][2]
    IN  top \/ dup

\* GopherRepetitionFilter.__call__
repetition_filter(self, value) ==
    IF no_stats(value) THEN self.if_missing
    ELSE IF above(self.max_dup_line_frac, value.stats, "dup_line_frac") THEN FALSE
    ELSE IF above(self.max_dup_line_char_frac, value.stats, "dup_line_char_frac")
         THEN FALSE
    ELSE IF above(self.max_dup_para_frac, value.stats, "dup_para_frac") THEN FALSE
    ELSE IF above(self.max_dup_para_char_frac, value.stats, "dup_para_char_frac")
         THEN FALSE
    ELSE repetition_ngrams(self, value.stats)

RepetitionKeys == {"dup_line_frac", "dup_para_frac", "top_2_gram_char_frac",
                   "top_3_gram_char_frac", "dup_5_gram_char_frac"}
RepetitionValues == {0, 50}

FilterInit ==
    /\ DedupIdle
    /\ PipeIdle
    /\ PathIdle
    /\ LifeIdle
    /\ RegistryIdle
    /\ BandsIdle
    /\ CounterIdle
    /\ SignatureIdle
    /\ GopherIdle
    /\ IngestIdle
    /\ \/ predicate \in LanguageFilters /\ datum \in LanguageData
       \/ predicate \in OCRFilters /\ datum \in StatsOver(OCRKeys, OCRValues)
       \/ /\ predicate \in RepetitionFilters
          /\ datum \in StatsOver(RepetitionKeys, RepetitionValues)
    /\ verdict = NoVerdict

nonFilterVars == <<dedupVars, pipeVars, pathVars, lifeVars, registryVars, bandVars,
                   counterVars, signatureVars, gopherVars, ingestVars>>

\* LanguageFilter(...)(row)
LanguageCall ==
    /\ predicate.kind = "language"
    /\ ~verdict.called
    /\ verdict' = [called |-> TRUE, value |-> language_filter(predicate, datum)]
    /\ UNCHANGED <<predicate, datum, nonFilterVars>>

\* OCRQualityFilter(...)(row)
OCRCall ==
    /\ predicate.kind = "ocr"
    /\ ~verdict.called
    /\ verdict' = [called |-> TRUE, value |-> ocr_filter(predicate, datum)]
    /\ UNCHANGED <<predicate, datum, nonFilterVars>>

\* GopherRepetitionFilter(...)(row)
RepetitionCall ==
    /\ predicate.kind = "repetition"
    /\ ~verdict.called
    /\ verdict' = [called |-> TRUE, value |-> repetition_filter(predicate, datum)]
    /\ UNCHANGED <<predicate, datum, nonFilterVars>>

FilterNext ==
    \/ LanguageCall
    \/ OCRCall
    \/ RepetitionCall

SpecFilter == FilterInit /\ [][FilterNext]_vars

\* The (name, score) pairs of the value, a scalar standing for itself.
LanguagePairs == zip(datum.names.items, datum.scores.items)

\* Names or scores are missing or empty.
LanguageMissing ==
    \/ datum.kind = "missing"
    \/ datum.names.kind = "missing" \/ datum.names.items \in {<<>>, << <<>> >>}
    \/ datum.scores.kind = "missing" \/ datum.scores.items = <<>>

PairAllowed(pair) ==
    /\ pair[1] \in predicate.allowed_languages.value
    /\ pair[2] >= predicate.min_confidence

\* C21: LanguageFilter keeps a row iff some pair (partial match) or every
\* pair (otherwise) of names and scores has its name among the allowed
\* languages and its score at least min_confidence; with names or scores
\* missing or empty it returns if_missing.
C21_LanguageFilter ==
    (verdict.called /\ predicate.kind = "language") =>
        verdict.value =
            IF LanguageMissing THEN predicate.if_missing
            ELSE IF predicate.allow_partial_match
                 THEN \E k \in DOMAIN LanguagePairs : PairAllowed(LanguagePairs[k])
                 ELSE \A k \in DOMAIN LanguagePairs : PairAllowed(LanguagePairs[k])


(***************************************************************************)
(* BaseIngestor.  Rows are records as for set_field; a value is written    *)
(* with its type: "s:x" the string x, "i:7" the integer 7, "None".         *)
(***************************************************************************)
Leaf(x) == Scalar(x)

id_column == <<"id">>
text_column == <<"text">>
source_name_or_column == <<"source">>

\* The string a column name is.
NameOf(field) ==
    CASE field = <<"source">> -> Leaf("s:source")
      [] field = <<"subset">> -> Leaf("s:subset")
      [] OTHER -> Leaf("s:name")

UUIDs == {Leaf("s:uuid1"), Leaf("s:uuid2")}

\* bool(value)
truthy(value) ==
    value \notin {NoneValue, Leaf("s:"), Leaf("i:0"), EmptyDict}

\* str(value)
str(value) ==
    CASE value = NoneValue -> Leaf("s:None")
      [] value = Leaf("i:7") -> Leaf("s:7")
      [] value = Leaf("i:0") -> Leaf("s:0")
      [] DOMAIN value # {<<>>} \/ value = EmptyDict -> Leaf("s:{...}")
      [] OTHER -> value

\* x or y
or(x, y) == IF truthy(x) THEN x ELSE y

\* "id": str(get_field(row, self.id_column)) or str(uuid.uuid4().hex)
ingest_id(record, uuid) == or(str(get_field(record, id_column)), uuid)

\* The loop over self.other.
RECURSIVE ingest_other(_, _, _)
ingest_other(updated_row, record, other) ==
    IF other = <<>> THEN updated_row
    ELSE ingest_other(assign(updated_row, <<other[1]>>,
                             get_field(record, other[1])),
                      record, Tail(other))

\* updated_row["metadata"][key] = get_field(row, column) or column
ingest_metadata(updated, record, key, column) ==
    IF updated.err # "none" \/ column = <<>> THEN updated
    ELSE IF updated.row[<< <<"metadata">> >>] # "dict"
         THEN [row |-> updated.row, err |-> "TypeError"]
         ELSE [row |-> assign(updated.row, << <<"metadata">>, key >>,
                              or(get_field(record, column), NameOf(column))),
               err |-> "none"]

\* BaseIngestor.__call__: the row returned, or what was raised.
ingest(self, record, uuid) ==
    LET basic == assign(assign(assign(assign(EmptyDict,
                     << <<"id">> >>, ingest_id(record, uuid)),
                     << <<"text">> >>, or(get_field(record, text_column), Leaf("s:"))),
                     << <<"source">> >>,
                     or(get_field(record, source_name_or_column),
                        NameOf(source_name_or_column))),
                     << <<"metadata">> >>, EmptyDict)
        others == ingest_other(basic, record, self.other)
        subset == ingest_metadata([row |-> others, err |-> "none"], record,
                                  <<"subset">>, self.subset_name_or_column)
    IN  ingest_metadata(subset, record, <<"license">>, self.license_name_or_column)

Column(record, key, values) ==
    {record} \cup {record @@ (<< <<key>> >> :> v) : v \in values}

ForeignRows ==
    UNION {UNION {UNION {Column(c, "metadata", {"dict", "s:x"}) :
                         c \in Column(b, "source", {"s:x", "None"})} :
                  b \in Column(a, "text", {"s:x", "s:", "i:7", "None"})} :
           a \in Column(EmptyDict, "id", {"s:x", "s:", "i:7", "i:0", "None"})}

Ingestors ==
    [other : {<<>>, << <<"extra">> >>, << <<"metadata">> >>},
     subset_name_or_column : {<<>>, <<"subset">>},
     license_name_or_column : {<<>>, <<"license">>}]

IngestInit ==
    /\ DedupIdle
    /\ PipeIdle
    /\ PathIdle
    /\ LifeIdle
    /\ RegistryIdle
    /\ BandsIdle
    /\ CounterIdle
    /\ SignatureIdle
    /\ GopherIdle
    /\ FilterIdle
    /\ ingestor \in Ingestors
    /\ foreign \in ForeignRows
    /\ ingested = NoIngested

nonIngestVars == <<dedupVars, pipeVars, pathVars, lifeVars, registryVars, bandVars,
                   counterVars, signatureVars, gopherVars, filterVars>>

\* ingestor(row); uuid.uuid4() is any identifier.
Ingest ==
    /\ ~ingested.called
    /\ \E uuid \in UUIDs :
           LET r == ingest(ingestor, foreign, uuid)
           IN  ingested' = [called |-> TRUE, row |-> r.row, raised |-> r.err]
    /\ UNCHANGED <<ingestor, foreign, nonIngestVars>>

IngestNext == Ingest

SpecIngest == IngestInit /\ [][IngestNext]_vars

IsString(value) ==
    value \in {Leaf("s:"), Leaf("s:x"), Leaf("s:None"), Leaf("s:7"), Leaf("s:0"),
               Leaf("s:{...}"), Leaf("s:source"), Leaf("s:subset"), Leaf("s:name")}
        \cup UUIDs

Has(record, key) == << key >> \in DOMAIN record

\* C22: ingest normalisation. The row BaseIngestor returns has a string id,
\* a string text, a source and a record metadata; without the id column in
\* the input row the id is a new random UUID, without the text column the
\* text is the empty string, without the source column the source is the
\* configured name.
C22_IngestNormalises ==
    ingested.called =>
        /\ ingested.raised = "none"
        /\ IsString(get_field(ingested.row, <<"id">>))
        /\ IsString(get_field(ingested.row, <<"text">>))
        /\ Has(ingested.row, <<"source">>)
        /\ ingested.row[<< <<"metadata">> >>] = "dict"
        /\ ~Has(foreign, id_column) => get_field(ingested.row, <<"id">>) \in UUIDs
        /\ ~Has(foreign, text_column)
               => get_field(ingested.row, <<"text">>) = Leaf("s:")
        /\ ~Has(foreign, source_name_or_column)
               => get_field(ingested.row, <<"source">>)
                      = NameOf(source_name_or_column)


\* The stage has returned the row of document d.
Returned23(d) == run >= 1 /\ task[d].pc = "done"

BandSet(matrix, x) ==
    \E k \in 1..num_bands :
        \A h \in 0..(bloom_hashes - 1) :
            matrix[k][mmh3_seeded(Signature(x)[k], h) % bloom_size]

\* C24: no false negatives. A get answers true exactly when some band has
\* all the hashed positions of its argument set; a put of x sets them, and
\* whatever is put or asked later, they stay set: get(x) is true in every
\* state after put(x).
C24_NoFalseNegatives ==
    /\ [](last.op = "get" => (last.result = "True" <=> BandSet(state, last.data)))
    /\ [][/\ last'.op = "put" => get(state', last'.data)
          /\ \A x \in Data : get(state, x) => get(state', x)]_vars

\* After puts, a get was answered true while the matrix still answers
\* false for another string.
C24_Witness ==
    /\ last.op = "get"
    /\ last.result = "True"
    /\ BandSet(state, last.data)
    /\ \E x \in Data : ~get(state, x)


\* The classes of the processors switched on, in the order of declaration.
IsEnabled(c) == c.enabled
EnabledClasses(cfg) ==
    [k \in 1..Len(SelectSeq(cfg.processors, IsEnabled)) |->
        components_get(SelectSeq(cfg.processors, IsEnabled)[k].category,
                       SelectSeq(cfg.processors, IsEnabled)[k].type)]

\* The stages before the first one that is neither a Map nor a Filter.
RECURSIVE UpToOther(_)
UpToOther(cs) ==
    IF cs = <<>> \/ cs[1] \notin {"Map", "Filter"} THEN <<>>
    ELSE <<cs[1]>> \o UpToOther(Tail(cs))

\* C25: stage ordering in process(). The plan process() builds holds the
\* processors switched on, in the order of their declaration, and none that
\* is switched off; a processor that is neither a Map nor a Filter makes
\* process() fail with the ValueError of its last branch; a row reaches a
\* stage only through all the stages before it, and not past a Filter that
\* returned false for it.
C25_StageOrdering ==
    /\ [][phases' = Append(phases, "process") =>
             LET cs == EnabledClasses(config)
             IN  IF \A k \in 1..Len(cs) : cs[k] \in {"Map", "Filter"}
                 THEN error' = "none" /\ dataset'.plan = cs
                 ELSE /\ error' = "classify"
                      /\ pc' = "failed"
                      /\ dataset'.plan = UpToOther(cs)]_vars
    /\ [](\A i \in 1..Len(applied) : \A j \in 2..Len(applied[i]) :
              applied[i][j] > 0 =>
                  /\ applied[i][j - 1] > 0
                  /\ \A k \in 1..(j - 1) :
                         dataset.plan[k] = "Filter" => source[i] # "dropped")
    /\ [](written.set =>
              \A i \in 1..Len(source) :
                  (source[i] = "dropped" /\ \E k \in 1..Len(dataset.plan) :
                                                dataset.plan[k] = "Filter")
                  => \A k \in 1..Len(written.rows) : written.rows[k] # i)

\* A run with a processor switched off and a Filter has written its rows,
\* without a row the Filter returned false for; the Map after the Filter
\* was called on another row.
C25_Witness ==
    /\ written.set
    /\ \E k \in 1..Len(config.processors) : ~config.processors[k].enabled
    /\ \E k \in 1..Len(dataset.plan) : dataset.plan[k] = "Filter"
    /\ \E i \in 1..Len(source) : source[i] = "dropped"
    /\ \E i \in 1..Len(source) : source[i] = "good" /\ applied[i][1] > 0


\* The thresholds the metrics of the row exceed, as the filter counts them.
Hits == ocr_hits(predicate, datum.stats)

\* C26: OCRQualityFilter takes the filter modes any, maj and all and no
\* other, the default included; it removes a row when any threshold is
\* exceeded (any), more thresholds are exceeded than not (maj) or all are
\* (all), keeps a row that exceeds none in every mode, and returns
\* if_missing for a row without metrics.
C26_OCRFilterModes ==
    /\ predicate.kind = "ocr" => predicate.given \in {"any", "maj", "all"}
    /\ predicate.kind = "rejected" => predicate.given \notin {"any", "maj", "all"}
    /\ (verdict.called /\ predicate.kind = "ocr") =>
           IF no_stats(datum) THEN verdict.value = predicate.if_missing
           ELSE /\ Count(Hits) = 0 => verdict.value
                /\ predicate.filter_mode = "any" =>
                       (verdict.value <=> Count(Hits) = 0)
                /\ predicate.filter_mode = "maj" =>
                       (verdict.value <=> ~(2 * Count(Hits) > Len(Hits)))
                /\ predicate.filter_mode = "all" =>
                       (verdict.value <=> Count(Hits) < Len(Hits))

\* A fraction of the row is above its configured maximum.
Exceeds ==
    \/ above(predicate.max_dup_line_frac, datum.stats, "dup_line_frac")
    \/ above(predicate.max_dup_line_char_frac, datum.stats, "dup_line_char_frac")
    \/ above(predicate.max_dup_para_frac, datum.stats, "dup_para_frac")
    \/ above(predicate.max_dup_para_char_frac, datum.stats, "dup_para_char_frac")
    \/ ~repetition_ngrams_within(predicate, datum.stats)

\* C27: GopherRepetitionFilter returns false for a row one of whose
\* duplicate-line, duplicate-paragraph, top-n-gram or duplicate-n-gram
\* fractions is above its maximum, true for a row whose fractions are all
\* within their maxima, and if_missing for a row without metrics.
C27_RepetitionFilter ==
    (verdict.called /\ predicate.kind = "repetition") =>
        IF no_stats(datum) THEN verdict.value = predicate.if_missing
        ELSE verdict.value <=> ~Exceeds


\* C28: set_field is all-or-nothing on failure. Whenever set_field raises,
\* on the empty path or on an existing intermediate that is not a record,
\* the row is as it was before the call: no record created, no value
\* overwritten.
C28_SetFieldAllOrNothing ==
    [][(call'.op = "set" /\ raised' # "none") => row' = row]_vars

\* set_field("a.b.a", ...) has raised TypeError on the row {"a": {"b": 1}}.
C28_Witness ==
    /\ call.op = "set"
    /\ call.field = <<"a", DOT, "b", DOT, "a">>
    /\ raised = "TypeError"
    /\ get_field(row, <<"a", DOT, "b">>) = Scalar("1")


\* The iterations of the while loop of _find_all_duplicate, counted up to
\* one more than the words there are.
RECURSIVE find_all_duplicate_steps(_, _, _, _, _)
find_all_duplicate_steps(list, n, idx, unique, steps) ==
    IF ~(idx < Len(list) - n + 1) \/ steps > Len(list) THEN steps
    ELSE LET n_gram == concat(slice(list, idx, n))
         IN  IF n_gram \in unique
             THEN find_all_duplicate_steps(list, n, idx + n, unique, steps + 1)
             ELSE find_all_duplicate_steps(list, n, idx + 1,
                                           unique \cup {n_gram}, steps + 1)

\* A ratio between 0 and 1.
IsFraction(r) == 0 <= r[1] /\ r[1] <= r[2]

\* The words of the text at hand, as __call__ separates them.
Words == split(join(split(content, SP), SP), SP)

\* C29: every fraction the Gopher repetition tagger writes for a text that
\* is not empty lies in [0, 1]: dup_line_frac, dup_para_frac,
\* dup_line_char_frac, dup_para_char_frac, every top_n_gram_char_frac and
\* every dup_n_gram_char_frac; and the greedy scan for duplicate n-grams
\* ends, after at most one iteration for each word.
C29_FractionsInUnitInterval ==
    Tagged =>
        /\ \A k \in DOMAIN repetition.fields : IsFraction(repetition.fields[k])
        /\ \A n \in DOMAIN repetition.top : IsFraction(repetition.top[n])
        /\ \A n \in DOMAIN repetition.dup : IsFraction(repetition.dup[n])
        /\ \A n \in Range(grams.dup_n_grams) :
               find_all_duplicate_steps(Words, n, 0, {}, 0) <= Len(Words)

\* C29 without the top-n-gram fractions.
C29_OtherFractions ==
    Tagged =>
        /\ \A k \in DOMAIN repetition.fields : IsFraction(repetition.fields[k])
        /\ \A n \in DOMAIN repetition.dup : IsFraction(repetition.dup[n])
        /\ \A n \in Range(grams.dup_n_grams) :
               find_all_duplicate_steps(Words, n, 0, {}, 0) <= Len(Words)



(***************************************************************************)
(* The phase methods of a DataPipeline called one by one, in any order,    *)
(* with their default arguments.  `phases` holds the calls made and        *)
(* `error` what the latest call raised.                                    *)
(***************************************************************************)
MaxPhaseCalls == 3     \* phase methods called on one pipeline

NoData == "ValueError: No data"
NoInput == "ValueError: No input specified"

\* The pipeline configurations tried; input "None" is a config whose input
\* was cleared after validation.
PhaseConfigs ==
    [input : {"jsonl", "None"},
     processors : {<<>>, <<Stage("filter", "value", "ok", TRUE)>>},
     output : {"None", "jsonl"},
     aggregations : {[set |-> FALSE, list |-> <<>>]}
                    \cup {[set |-> TRUE, list |-> l] :
                             l \in {<<>>,
                                    <<Stage("aggregation", "counter", "ok", TRUE)>>,
                                    <<Stage("aggregation", "counter", "ok", FALSE)>>}}]

PhaseSources == {<<>>, <<"good", "dropped">>, <<"poison">>}

PhaseInit ==
    /\ DedupIdle
    /\ PathIdle
    /\ RestIdle
    /\ config \in PhaseConfigs
    /\ pc = "direct"
    /\ source \in PhaseSources
    /\ dataset = [set |-> FALSE, plan |-> <<>>]
    /\ exec = NoExec
    /\ reads = [i \in 1..Len(source) |-> 0]
    /\ applied = [i \in 1..Len(source) |-> <<>>]
    /\ written = [set |-> FALSE, rows |-> <<>>]
    /\ ret = None
    /\ phases = <<>>
    /\ error = "none"

\* The plan run over the rows from row i on: the times each row was read
\* and each stage called, the rows let through and the error that ended it.
RECURSIVE execute(_, _, _, _)
execute(rows, plan, i, acc) ==
    IF i > Len(rows) THEN acc
    ELSE LET n == Calls(rows[i], plan)
             seen == [acc EXCEPT
                        !.reads[i] = @ + 1,
                        !.applied[i] = [j \in 1..Len(plan) |-> @[j] + n[j]]]
         IN  IF Raises(rows[i], plan) THEN [seen EXCEPT !.error = "udf"]
             ELSE execute(rows, plan, i + 1,
                          IF Dropped(rows[i], plan) THEN seen
                          ELSE [seen EXCEPT !.result = Append(@, i)])

Execution ==
    execute(source, dataset.plan, 1,
            [reads |-> reads, applied |-> applied, result |-> <<>>,
             error |-> "none"])

\* pipeline.read()
CallRead ==
    /\ Len(phases) < MaxPhaseCalls
    /\ phases' = Append(phases, "read")
    /\ IF config.input = "None"
       THEN error' = NoInput /\ UNCHANGED <<dataset, applied>>
       ELSE IF components_get("reader", config.input) = "ValueError"
            THEN error' = "lookup_reader" /\ UNCHANGED <<dataset, applied>>
            ELSE /\ dataset' = [set |-> TRUE, plan |-> <<>>]
                 /\ applied' = [i \in 1..Len(source) |-> <<>>]
                 /\ error' = "none"
    /\ UNCHANGED <<config, pc, source, exec, reads, written, ret, nonPipeVars>>

\* pipeline.process()
CallProcess ==
    /\ Len(phases) < MaxPhaseCalls
    /\ phases' = Append(phases, "process")
    /\ IF ~dataset.set
       THEN error' = NoData /\ UNCHANGED <<dataset, applied>>
       ELSE LET r == process_loop(config.processors, 1, dataset.plan)
            IN  /\ dataset' = [dataset EXCEPT !.plan = r.plan]
                /\ applied' = [i \in 1..Len(source) |->
                                  [j \in 1..Len(r.plan) |->
                                      IF j <= Len(applied[i]) THEN applied[i][j]
                                      ELSE 0]]
                /\ error' = r.error
    /\ UNCHANGED <<config, pc, source, exec, reads, written, ret, nonPipeVars>>

\* pipeline.write()
CallWrite ==
    /\ Len(phases) < MaxPhaseCalls
    /\ phases' = Append(phases, "write")
    /\ IF ~dataset.set
       THEN error' = NoData /\ UNCHANGED <<reads, applied, written>>
       ELSE IF config.output = "None"
            THEN error' = "AttributeError" /\ UNCHANGED <<reads, applied, written>>
       ELSE IF components_get("writer", config.output) = "ValueError"
            THEN error' = "lookup_writer" /\ UNCHANGED <<reads, applied, written>>
       ELSE /\ reads' = Execution.reads
            /\ applied' = Execution.applied
            /\ error' = Execution.error
            /\ written' = IF Execution.error = "none"
                          THEN [set |-> TRUE, rows |-> Execution.result]
                          ELSE written
    /\ UNCHANGED <<config, pc, source, dataset, exec, ret, nonPipeVars>>

\* aggregate() on a pipeline without a dataset: what it raises.  Iterating
\* None, the lookup and the construction of the first aggregation switched
\* on come before the first use of ds.
aggregate_unset(aggregations) ==
    IF ~aggregations.set THEN "TypeError"
    ELSE LET r == aggregate_loop(SubSeq(aggregations.list, 1,
                                        Min(Len(aggregations.list), 1)), 1, <<>>)
         IN  IF r.error # "none" THEN r.error ELSE "AttributeError"

\* pipeline.aggregate()
CallAggregate ==
    /\ Len(phases) < MaxPhaseCalls
    /\ phases' = Append(phases, "aggregate")
    /\ IF ~dataset.set
       THEN error' = aggregate_unset(config.aggregations)
            /\ UNCHANGED <<reads, applied, ret>>
       ELSE IF ~config.aggregations.set
            THEN error' = "TypeError" /\ UNCHANGED <<reads, applied, ret>>
       ELSE LET r == aggregate_loop(config.aggregations.list, 1, <<>>)
            IN  IF r.error # "none"
                THEN error' = r.error /\ UNCHANGED <<reads, applied, ret>>
                ELSE /\ reads' = Execution.reads
                     /\ applied' = Execution.applied
                     /\ error' = Execution.error
                     /\ ret' = IF Execution.error = "none"
                               THEN aggregate_return(
                                        ds_aggregate(r.aggs, Execution.result))
                               ELSE ret
    /\ UNCHANGED <<config, pc, source, dataset, exec, written, nonPipeVars>>

PhaseNext ==
    \/ CallRead
    \/ CallProcess
    \/ CallWrite
    \/ CallAggregate

SpecPhases == PhaseInit /\ [][PhaseNext]_vars

\* The phase method called by this step.
Called(phase) == phases' # phases /\ phases'[Len(phases')] = phase

\* C30: phase preconditions. process, write and aggregate, called while no
\* dataset is loaded, fail with the ValueError that reports that there is
\* no data and leave the dataset unset; read fails with a ValueError when
\* no input is configured.
C30_PhasePreconditions ==
    [][/\ \A phase \in {"process", "write", "aggregate"} :
              (Called(phase) /\ ~dataset.set) =>
                  error' = NoData /\ ~dataset'.set
       /\ (Called("read") /\ config.input = "None") => error' = NoInput]_vars

\* C30 without aggregate.
C30_ReadProcessWrite ==
    [][/\ \A phase \in {"process", "write"} :
              (Called(phase) /\ ~dataset.set) =>
                  error' = NoData /\ ~dataset'.set
       /\ (Called("aggregate") /\ ~dataset.set) => ~dataset'.set
       /\ (Called("read") /\ config.input = "None") =>
              error' = NoInput /\ ~dataset'.set]_vars

=============================================================================
